---------------------------- MODULE Spec2Model ----------------------------
(***************************************************************************)
(* A model of the PDF title extraction engine of autobib (src/pdftitle.py) *)
(* Strings are sequences of one-character strings.  Font sizes and         *)
(* y-coordinates are integers counted in units of 1e-7, x-coordinates in   *)
(* units of 0.01, so that the thresholds of the code are exact.            *)
(***************************************************************************)
EXTENDS Integers, Sequences, FiniteSets, TLC

VARIABLES
    sIn, sN, sPadded, sBytes, sOut1, sOut2, sPc,   \* sanitize and its caller
    jLine, jN, jRes, jPc,                          \* junk_line and its caller
    largest_text, fed, prev, branch,               \* update_largest_text
    \* extract_figure_text: its locals text, line, y0, size, char_distance,
    \* char_previous_x1 and state, the children visited, and where it is
    fText, fLine, fY0, fSize, char_distance, char_previous_x1, fState,
    glyphs, fPc,
    \* pdf_title: the document, the tier to run next, the tiers run so far,
    \* how the call ended, what it returned and which tier gave it
    doc, tPc, tInvoked, tOutcome, tResult, tSource,
    \* the file and process handles pdf_title has opened and that are not
    \* released, and whether the interpreter finalizes a file object as soon
    \* as the function that opened it is left
    handles, gc,
    \* pdf_text and the main program: the first page, the object and the
    \* child being read, the text read so far, where the run is, and the
    \* title printed
    page, pObj, pChild, pText, pPc, pOut,
    \* calls of pdf_text that run side by side: the dictionaries created so
    \* far, and for each call its document, the lines still to read, the
    \* dictionary its largest_text refers to, where it is and its title
    heap, wDoc, wLines, wRef, wPc, wTitle,
    \* write_with_backup: the file and its backups, the calls made, the last
    \* call
    files, bWrites, bLast,
    \* gen_bibkey: the set all_keys, as it was before the last call, and the
    \* keys returned
    all_keys, kBefore, kReturned,
    \* rename_folder: the entries of biblio.bib and the file fields of
    \* .queried.bib as read, the files of the folder now and at the start,
    \* the two bib files on disk, what os.rename does with a destination
    \* that exists, the argument use_backup, the entry being renamed, where
    \* the call is, whether the user confirmed, and how the call ended
    rEntries, rQueried, rFolder, rBefore, rBib, rQBib, rPlatform, rUseBackup,
    rIdx, rPc, rConfirmed, rOutcome

sanVars == <<sIn, sN, sPadded, sBytes, sOut1, sOut2, sPc>>
junkVars == <<jLine, jN, jRes, jPc>>
trackVars == <<largest_text, fed, prev, branch>>
figVars ==
    <<fText, fLine, fY0, fSize, char_distance, char_previous_x1, fState,
      glyphs, fPc>>
titleVars == <<doc, tPc, tInvoked, tOutcome, tResult, tSource, handles, gc>>
pageVars == <<page, pObj, pChild, pText, pPc, pOut>>
batchVars == <<heap, wDoc, wLines, wRef, wPc, wTitle>>
backupVars == <<files, bWrites, bLast>>
keyVars == <<all_keys, kBefore, kReturned>>
renameVars ==
    <<rEntries, rQueried, rFolder, rBefore, rBib, rQBib, rPlatform,
      rUseBackup, rIdx, rPc, rConfirmed, rOutcome>>
vars ==
    <<sanVars, junkVars, trackVars, figVars, titleVars, pageVars, batchVars,
      backupVars, keyVars, renameVars>>

\* What the steps of one component leave alone.
sanRest ==
    <<junkVars, trackVars, figVars, titleVars, pageVars, batchVars,
      backupVars, keyVars, renameVars>>
junkRest ==
    <<sanVars, trackVars, figVars, titleVars, pageVars, batchVars,
      backupVars, keyVars, renameVars>>
trackRest ==
    <<sanVars, junkVars, figVars, titleVars, pageVars, batchVars,
      backupVars, keyVars, renameVars>>
figRest ==
    <<sanVars, junkVars, titleVars, pageVars, batchVars, backupVars, keyVars,
      renameVars>>
titleRest ==
    <<sanVars, junkVars, trackVars, figVars, pageVars, batchVars,
      backupVars, keyVars, renameVars>>
pageRest ==
    <<sanVars, junkVars, batchVars, backupVars, keyVars, renameVars>>
batchRest ==
    <<sanVars, junkVars, trackVars, figVars, titleVars, pageVars,
      backupVars, keyVars, renameVars>>
backupRest ==
    <<sanVars, junkVars, trackVars, figVars, titleVars, pageVars,
      batchVars, keyVars, renameVars>>
keyRest ==
    <<sanVars, junkVars, trackVars, figVars, titleVars, pageVars,
      batchVars, backupVars, renameVars>>
renameRest ==
    <<sanVars, junkVars, trackVars, figVars, titleVars, pageVars,
      batchVars, backupVars, keyVars>>

(***************************************************************************)
(* Bounds of the model.                                                    *)
(***************************************************************************)
MaxSanTokens == 3
MaxJunkTokens == 3
MaxFed == 2
MaxGlyphs == 3
MaxDumpLines == 4
MaxBatchLines == 2
MaxWrites == 3
MaxKeyCalls == 3
MaxEntries == 2

(***************************************************************************)
(* Program constants (src/pdftitle.py:50-53).                              *)
(***************************************************************************)
MIN_CHARS == 6
MAX_WORDS == 20
MAX_CHARS == MAX_WORDS * 10
TOLERANCE == 10
\* The default of title_end's max_lines (src/pdftitle.py:287).
max_lines == 2

(***************************************************************************)
(* Characters and the string methods of Python the code uses.              *)
(***************************************************************************)
LowerLetters ==
    {"a","b","c","d","e","f","g","h","i","j","k","l","m",
     "n","o","p","q","r","s","t","u","v","w","x","y","z"}
UpperLetters ==
    {"A","B","C","D","E","F","G","H","I","J","K","L","M",
     "N","O","P","Q","R","S","T","U","V","W","X","Y","Z"}
ascii_letters == LowerLetters \cup UpperLetters
digits == {"0","1","2","3","4","5","6","7","8","9"}
\* What str.strip() removes and what \s matches.
whitespace == {" ", "\t", "\n", "\r"}

LowerChar(c) ==
    CASE c = "A" -> "a" [] c = "B" -> "b" [] c = "C" -> "c" [] c = "D" -> "d"
      [] c = "E" -> "e" [] c = "F" -> "f" [] c = "G" -> "g" [] c = "H" -> "h"
      [] c = "I" -> "i" [] c = "J" -> "j" [] c = "K" -> "k" [] c = "L" -> "l"
      [] c = "M" -> "m" [] c = "N" -> "n" [] c = "O" -> "o" [] c = "P" -> "p"
      [] c = "Q" -> "q" [] c = "R" -> "r" [] c = "S" -> "s" [] c = "T" -> "t"
      [] c = "U" -> "u" [] c = "V" -> "v" [] c = "W" -> "w" [] c = "X" -> "x"
      [] c = "Y" -> "y" [] c = "Z" -> "z" [] OTHER -> c

\* s.lower()
lower(s) == [i \in 1..Len(s) |-> LowerChar(s[i])]

\* s[a:b] of Python with 0 <= a, written with the 1-based first index a+1.
Slice(s, from, to) ==
    IF to < from THEN <<>> ELSE SubSeq(s, from, IF to > Len(s) THEN Len(s) ELSE to)

\* s.strip()
strip(s) ==
    LET keep == {i \in 1..Len(s) : s[i] \notin whitespace}
    IN  IF keep = {} THEN <<>>
        ELSE LET lo == CHOOSE i \in keep : \A k \in keep : i <= k
                 hi == CHOOSE i \in keep : \A k \in keep : i >= k
             IN  SubSeq(s, lo, hi)

RECURSIVE FlatRange(_, _, _)
\* The concatenation of the sequences pieces[lo], ..., pieces[hi].
FlatRange(pieces, lo, hi) ==
    IF lo > hi THEN <<>>
    ELSE IF lo = hi THEN pieces[lo]
    ELSE LET mid == (lo + hi) \div 2
         IN  FlatRange(pieces, lo, mid) \o FlatRange(pieces, mid + 1, hi)

Flat(pieces) == FlatRange(pieces, 1, Len(pieces))

\* s.split(sep) for a one-character separator: the words between the
\* separators, the k-th word ending before the k-th separator.
split(s, sep) ==
    LET at == {i \in 1..Len(s) : s[i] = sep}
        n == Cardinality(at)
        Nth(k) == IF k = 0 THEN 0
                  ELSE IF k = n + 1 THEN Len(s) + 1
                  ELSE CHOOSE i \in at : Cardinality({j \in at : j <= i}) = k
    IN  [k \in 1..(n + 1) |-> SubSeq(s, Nth(k - 1) + 1, Nth(k) - 1)]

\* sep.join(words)
join(sep, words) ==
    Flat([k \in 1..Len(words) |-> IF k = 1 THEN words[k] ELSE sep \o words[k]])

\* s with the characters outside `keep` removed.
Filter(s, keep) == SelectSeq(s, LAMBDA c : c \in keep)

\* Where the regular expression's $ matches: at the end of the string and
\* just before a newline that ends it.
AtEnd(s, i) == i = Len(s) + 1 \/ (i = Len(s) /\ s[i] = "\n")

\* s[i..] starts with t.
StartsAt(s, i, t) ==
    /\ i + Len(t) - 1 <= Len(s)
    /\ \A k \in 1..Len(t) : s[i + k - 1] = t[k]

Range(s) == {s[i] : i \in 1..Len(s)}

(***************************************************************************)
(* Regular expressions: a pattern is a sequence of atoms, each a literal   *)
(* character, "WS+" for \s+ or "ANY*" for .* (any run without a newline).  *)
(***************************************************************************)
RECURSIVE MatchFrom(_, _, _, _)
\* The pattern from atom k on matches s from position i on.
MatchFrom(pat, k, s, i) ==
    IF k > Len(pat) THEN TRUE
    ELSE IF pat[k] = "WS+"
         THEN \E j \in (i + 1)..(Len(s) + 1) :
                  /\ \A m \in i..(j - 1) : s[m] \in whitespace
                  /\ MatchFrom(pat, k + 1, s, j)
    ELSE IF pat[k] = "ANY*"
         THEN \E j \in i..(Len(s) + 1) :
                  /\ \A m \in i..(j - 1) : s[m] # "\n"
                  /\ MatchFrom(pat, k + 1, s, j)
    ELSE /\ i <= Len(s)
         /\ s[i] = pat[k]
         /\ MatchFrom(pat, k + 1, s, i + 1)

\* re.search(pat, s)
Search(pat, s) == \E i \in 1..(Len(s) + 1) : MatchFrom(pat, 1, s, i)

(***************************************************************************)
(* junk_line (src/pdftitle.py:90-104).                                     *)
(***************************************************************************)
SectionWords == { <<"a", "b", "s", "t", "r", "a", "c", "t">>, <<"i", "n", "t", "r", "o", "d", "u", "c", "t", "i", "o", "n">> }
PlaceholderWords ==
    { <<"a", "b", "s", "t", "r", "a", "c", "t">>, <<"u", "n", "k", "n", "o", "w", "n">>, <<"t", "i", "t", "l", "e">>, <<"u", "n", "t", "i", "t", "l", "e", "d">> }

\* ^[0-9 \t-]+(abstract|introduction)?\s+$ : a run of digits, blanks and
\* dashes up to position i-1, an optional word, then whitespace to the end.
MatchNumbered(s) ==
    \E i \in 2..(Len(s) + 1) :
        /\ \A m \in 1..(i - 1) : s[m] \in digits \cup {" ", "\t", "-"}
        /\ \E w \in SectionWords \cup {<<>>} :
               /\ StartsAt(s, i, w)
               /\ \E e \in (i + Len(w) + 1)..(Len(s) + 1) :
                      /\ \A m \in (i + Len(w))..(e - 1) : s[m] \in whitespace
                      /\ AtEnd(s, e)

\* ^(abstract|unknown|title|untitled):?$
MatchPlaceholder(s) ==
    \E w \in PlaceholderWords :
        /\ StartsAt(s, 1, w)
        /\ \/ AtEnd(s, Len(w) + 1)
           \/ (StartsAt(s, Len(w) + 1, <<":">>) /\ AtEnd(s, Len(w) + 2))

\* A variant of too_small with the threshold one too low.
too_small_off_by_one(line) == Len(strip(line)) < MIN_CHARS - 1

\* Line 93
too_small(line) == Len(strip(line)) < MIN_CHARS

is_placeholder_text(line) ==
    LET s == lower(strip(line)) IN MatchNumbered(s) \/ MatchPlaceholder(s)

CopyrightPatterns ==
    { <<"p", "a", "p", "e", "r", "WS+", "t", "i", "t", "l", "e">>,
      <<"t", "e", "c", "h", "n", "i", "c", "a", "l", "WS+", "r", "e", "p", "o", "r", "t">>,
      <<"p", "r", "o", "c", "e", "e", "d", "i", "n", "g", "s">>,
      <<"p", "r", "e", "p", "r", "i", "n", "t">>,
      <<"t", "o", "WS+", "a", "p", "p", "e", "a", "r">>,
      <<"s", "u", "b", "m", "i", "s", "s", "i", "o", "n">>,
      <<"i", "n", "t", "e", "g", "r", "a", "t", "e", "d", "ANY*", "c", "o", "n", "f", "e", "r", "e", "n", "c", "e">>,
      <<"i", "n", "t", "e", "r", "n", "a", "t", "i", "o", "n", "a", "l", "ANY*", "c", "o", "n", "f", "e", "r", "e", "n", "c", "e">>,
      <<"t", "r", "a", "n", "s", "a", "c", "t", "i", "o", "n", "s", "WS+", "o", "n">>,
      <<"s", "y", "m", "p", "o", "s", "i", "u", "m", "WS+", "o", "n">>,
      <<"d", "o", "w", "n", "l", "o", "a", "d", "e", "d", "WS+", "f", "r", "o", "m", "WS+", "h", "t", "t", "p">> }

is_copyright_info(line) ==
    LET s == lower(line) IN \E p \in CopyrightPatterns : Search(p, s)

\* Lines 98-102; the division is Python 2's integer division.
is_serial_number(line) ==
    LET ascii_length == Len(Filter(strip(line), ascii_letters))
        chars_length == Len(Filter(strip(line),
                            {c \in Range(strip(line)) : c \notin {" ", "\t", "\n"}}))
    IN  ascii_length < chars_length \div 2

junk_line(line) ==
    too_small(line) \/ is_placeholder_text(line) \/ is_copyright_info(line)
        \/ is_serial_number(line)

\* Line 106
empty_str(s) == Len(strip(s)) = 0

(***************************************************************************)
(* sanitize (src/pdftitle.py:55-80).                                       *)
(***************************************************************************)
NonAscii == {"é"}

\* unidecode.unidecode for the characters of the model: an ASCII character
\* is kept, a letter with a diacritic becomes its base letter.
unidecode_char(c) == IF c = "é" THEN "e" ELSE c

\* Lines 66-69: a byte string with a non-ASCII byte makes encode('utf-8')
\* raise UnicodeDecodeError, which is caught and leaves the text unchanged.
Transliterate(s, bytes) ==
    IF bytes /\ \E i \in 1..Len(s) : s[i] \in NonAscii THEN s
    ELSE [i \in 1..Len(s) |-> unidecode_char(s[i])]

\* re.sub(r',', ' ', s)
SubComma(s) == [i \in 1..Len(s) |-> IF s[i] = "," THEN " " ELSE s[i]]

\* re.sub(r': ', ' - ', s): every colon followed by a space starts a match,
\* and that space belongs to the match.
SubColon(s) ==
    Flat([i \in 1..Len(s) |->
        IF StartsAt(s, i, <<":", " ">>) THEN <<" ", "-", " ">>
        ELSE IF i > 1 /\ StartsAt(s, i - 1, <<":", " ">>) THEN <<>>
        ELSE <<s[i]>>])

RECURSIVE PdfRunEnds(_, _)
\* The positions after one or more ".pdf" starting at i.
PdfRunEnds(s, i) ==
    IF StartsAt(s, i, <<".", "p", "d", "f">>)
    THEN {i + 4} \cup PdfRunEnds(s, i + 4)
    ELSE {}

\* re.sub(r'\.pdf(\.pdf)*$', '', s): the leftmost match is removed.
StripPdfSuffix(s) ==
    LET starts == {i \in 1..Len(s) : \E e \in PdfRunEnds(s, i) : AtEnd(s, e)}
    IN  IF starts = {} THEN s
        ELSE LET i == CHOOSE x \in starts : \A y \in starts : x <= y
                 e == CHOOSE x \in PdfRunEnds(s, i) : AtEnd(s, x)
             IN  SubSeq(s, 1, i - 1) \o SubSeq(s, e, Len(s))

\* re.sub(r'[ \t][ \t]*', ' ', s): a run of blanks and tabs becomes one
\* blank, put where the run starts.
CollapseBlanks(s) ==
    Flat([i \in 1..Len(s) |->
        IF s[i] \in {" ", "\t"}
        THEN IF i > 1 /\ s[i - 1] \in {" ", "\t"} THEN <<>> ELSE <<" ">>
        ELSE <<s[i]>>])

\* A variant of valid_chars that lets the number sign through.
valid_chars_with_hash ==
    {"-", "_", ".", "(", ")", " ", "#"} \cup ascii_letters \cup digits

valid_chars == {"-", "_", ".", "(", ")", " "} \cup ascii_letters \cup digits

\* Lines 60-63: the first MAX_WORDS words, then the first MAX_CHARS characters.
Truncate(s) ==
    LET words == split(s, " ")
        kept == join(<<" ">>, Slice(words, 1, MAX_WORDS))
    IN  IF Len(kept) > MAX_CHARS THEN Slice(kept, 1, MAX_CHARS) ELSE kept

sanitize(s, bytes) ==
    Filter(CollapseBlanks(StripPdfSuffix(SubColon(SubComma(
        Transliterate(Truncate(s), bytes))))), valid_chars)

(***************************************************************************)
(* The caller of sanitize: a title is put together from tokens, possibly   *)
(* after a long run of words, and sanitized twice.                         *)
(***************************************************************************)
SanTokens ==
    { <<"a">>, <<" ">>, <<",">>, <<":">>, <<"#">>, <<".", "p", "d", "f">>,
      <<"é">>, <<"\t">> }

\* Runs that exceed the word limit, and the last of them the character
\* limit, once repeated.
SanUnits ==
    { <<"a", " ">>, <<"a", ",">>,
      <<"a", "a", "a", "a", "a", "a", "a", "a", ":", " ">> }

Repeat(u, n) == [i \in 1..(n * Len(u)) |-> u[((i - 1) % Len(u)) + 1]]

SanInit ==
    /\ sIn = <<>>
    /\ sN = 0
    /\ sPadded = FALSE
    /\ sBytes = FALSE
    /\ sOut1 = <<>>
    /\ sOut2 = <<>>
    /\ sPc = "build"

SanAppend(tok) ==
    /\ sPc = "build"
    /\ sN < MaxSanTokens
    /\ ~sPadded
    /\ sIn' = sIn \o tok
    /\ sN' = sN + 1
    /\ UNCHANGED <<sPadded, sBytes, sOut1, sOut2, sPc>>
    /\ UNCHANGED sanRest

SanPad(u) ==
    /\ sPc = "build"
    /\ ~sPadded
    /\ sIn' = Repeat(u, MAX_WORDS + 1) \o sIn
    /\ sPadded' = TRUE
    /\ UNCHANGED <<sN, sBytes, sOut1, sOut2, sPc>>
    /\ UNCHANGED sanRest

\* The title is sanitized (__main__, line 386) and the result once more.
SanCall(bytes) ==
    /\ sPc = "build"
    /\ sBytes' = bytes
    /\ LET once == sanitize(sIn, bytes)
       IN  sOut1' = once /\ sOut2' = sanitize(once, bytes)
    /\ sPc' = "done"
    /\ UNCHANGED <<sIn, sN, sPadded>>
    /\ UNCHANGED sanRest

SanNext ==
    \/ \E tok \in SanTokens : SanAppend(tok)
    \/ \E u \in SanUnits : SanPad(u)
    \/ \E bytes \in BOOLEAN : SanCall(bytes)

(***************************************************************************)
(* The caller of junk_line: a line is put together from tokens, or is one  *)
(* of the sample lines, and classified.                                    *)
(***************************************************************************)
LineAbstract == <<"A", "b", "s", "t", "r", "a", "c", "t">>
LineSerial == <<"1", "2", "3", "-", "4", "5", "6">>
LineTitle ==
    <<"A", " ", "F", "u", "l", "l", "y", " ", "P", "o", "l", "y", "n", "o", "m", "i", "a", "l", " ", "T", "i", "m", "e", " ">>
    \o <<"A", "p", "p", "r", "o", "x", "i", "m", "a", "t", "i", "o", "n", " ", "S", "c", "h", "e", "m", "e">>
\* A numbered heading, and three letters among seven characters.
LineNumbered ==
    <<"2", " ", "-", " ", "3", " ", "a", "b", "s", "t", "r", "a", "c", "t">>
LineOddSerial == <<"a", "b", "c", "1", "2", "3", "4">>
JunkSamples ==
    {LineAbstract, LineSerial, LineTitle, LineNumbered, LineOddSerial}

JunkTokens ==
    { <<"a">>, <<"b", "c">>, <<"1">>, <<" ">>, <<"-">>, <<"\n">>, <<":">>, <<".">>,
      <<"T", "i", "t", "l", "e">>, <<"I", "n", "t", "r", "o", "d", "u", "c", "t", "i", "o", "n">> }

JunkInit ==
    /\ jLine = <<>>
    /\ jN = 0
    /\ jRes = FALSE
    /\ jPc = "build"

JunkAppend(tok) ==
    /\ jPc = "build"
    /\ jN < MaxJunkTokens
    /\ jLine' = jLine \o tok
    /\ jN' = jN + 1
    /\ UNCHANGED <<jRes, jPc>>
    /\ UNCHANGED junkRest

JunkSample(l) ==
    /\ jPc = "build"
    /\ jN = 0
    /\ jLine' = l
    /\ jN' = MaxJunkTokens
    /\ UNCHANGED <<jRes, jPc>>
    /\ UNCHANGED junkRest

JunkCall ==
    /\ jPc = "build"
    /\ jRes' = junk_line(jLine)
    /\ jPc' = "done"
    /\ UNCHANGED <<jLine, jN>>
    /\ UNCHANGED junkRest

JunkNext ==
    \/ \E tok \in JunkTokens : JunkAppend(tok)
    \/ \E l \in JunkSamples : JunkSample(l)
    \/ JunkCall

(***************************************************************************)
(* The candidate tracker (src/pdftitle.py:109-136).  A size or a           *)
(* y-coordinate v stands for the number v * 1e-7; TOLERANCE is 1e-6 in     *)
(* that unit where the code uses it as a difference of sizes.              *)
(***************************************************************************)
Abs(a) == IF a < 0 THEN 0 - a ELSE a
Max(a, b) == IF a >= b THEN a ELSE b

\* Line 110: abs(a-b) <= 1e-6 * max(abs(a), abs(b)), both sides in the unit.
is_close(a, b) == Abs(a - b) <= (TOLERANCE * Max(Abs(a), Abs(b))) \div 10000000

\* Line 123: re.sub(r'\n$', ' ', line)
SubFinalNewline(line) ==
    [i \in 1..Len(line) |->
        IF line[i] = "\n" /\ AtEnd(line, i + 1) THEN " " ELSE line[i]]

\* The branch update_largest_text takes: "first" is the return of line 120,
\* "replace" lines 126-130, "merge" lines 133-134, "ignore" the fall through.
update_branch(y0, size, largest) ==
    IF size = largest.size /\ largest.size = 0 /\ y0 - largest.y0 < 0 - TOLERANCE
    THEN "first"
    ELSE IF size - largest.size > TOLERANCE THEN "replace"
    ELSE IF is_close(size, largest.size) THEN "merge"
    ELSE "ignore"

\* A variant of update_largest_text that tests is_close before the
\* difference of the sizes.
update_largest_text_close_first(line, y0, size, largest) ==
    LET l == SubFinalNewline(line)
    IN  IF update_branch(y0, size, largest) = "first" THEN largest
        ELSE IF is_close(size, largest.size)
             THEN [largest EXCEPT !.contents = largest.contents \o l, !.y0 = y0]
        ELSE IF size - largest.size > TOLERANCE
             THEN [contents |-> l, y0 |-> y0, size |-> size]
        ELSE largest

\* A variant of update_largest_text that merges in front of the candidate.
update_largest_text_prepend(line, y0, size, largest) ==
    LET b == update_branch(y0, size, largest)
        l == SubFinalNewline(line)
    IN  IF b = "replace" THEN [contents |-> l, y0 |-> y0, size |-> size]
        ELSE IF b = "merge"
             THEN [largest EXCEPT !.contents = l \o largest.contents, !.y0 = y0]
        ELSE largest

\* A variant of update_largest_text without the early return of lines
\* 119-120.
update_largest_text_no_first_rule(line, y0, size, largest) ==
    LET l == SubFinalNewline(line)
    IN  IF size - largest.size > TOLERANCE
        THEN [contents |-> l, y0 |-> y0, size |-> size]
        ELSE IF is_close(size, largest.size)
             THEN [largest EXCEPT !.contents = largest.contents \o l, !.y0 = y0]
        ELSE largest

\* A variant of update_largest_text whose merge takes the size of the line.
update_largest_text_merge_size(line, y0, size, largest) ==
    LET b == update_branch(y0, size, largest)
        l == SubFinalNewline(line)
    IN  IF b = "replace" THEN [contents |-> l, y0 |-> y0, size |-> size]
        ELSE IF b = "merge"
             THEN [contents |-> largest.contents \o l, y0 |-> y0, size |-> size]
        ELSE largest

\* Lines 112-136
update_largest_text(line, y0, size, largest) ==
    LET b == update_branch(y0, size, largest)
        l == SubFinalNewline(line)
    IN  IF b = "replace" THEN [contents |-> l, y0 |-> y0, size |-> size]
        ELSE IF b = "merge"
             THEN [largest EXCEPT !.contents = largest.contents \o l, !.y0 = y0]
        ELSE largest

\* pdf_text, lines 253-257
EmptyCandidate == [contents |-> <<>>, y0 |-> 0, size |-> 0]

(***************************************************************************)
(* The caller of update_largest_text: lines are fed one after the other.   *)
(***************************************************************************)
\* 0, 5e-7, 0.1, 0.1000005, 11.9999995, 12, 12.000005 and 18
FedSizes == {0, 5, 1000000, 1000005, 119999995, 120000000, 120000050, 180000000}
\* -1, 0 and 1
FedYs == {0 - 10000000, 0, 10000000}
FedTexts == { <<"D">>, <<"R", "\n">> }

TrackInit ==
    /\ largest_text = EmptyCandidate
    /\ fed = <<>>
    /\ prev = EmptyCandidate
    /\ branch = "none"

Feed(line, y0, size) ==
    /\ Len(fed) < MaxFed
    /\ prev' = largest_text
    /\ branch' = update_branch(y0, size, largest_text)
    /\ largest_text' = update_largest_text(line, y0, size, largest_text)
    /\ fed' = Append(fed, [line |-> line, y0 |-> y0, size |-> size])
    /\ UNCHANGED trackRest

TrackNext ==
    \E line \in FedTexts, y0 \in FedYs, size \in FedSizes : Feed(line, y0, size)

(***************************************************************************)
(* extract_figure_text (src/pdftitle.py:157-240), one child of the figure  *)
(* per step.  An x-coordinate or a distance v stands for v * 0.01.         *)
(***************************************************************************)
\* Lines 164-170
FigInit ==
    /\ fText = <<>>
    /\ fLine = <<>>
    /\ fY0 = 0
    /\ fSize = 0
    /\ char_distance = 0
    /\ char_previous_x1 = 0
    /\ fState = "INIT_X"
    /\ glyphs = <<>>
    /\ fPc = "loop"

\* Lines 185-194: the font size changed, the line read so far is handed to
\* update_largest_text and a new line starts with this character.
NewLine(child) ==
    /\ prev' = largest_text
    /\ branch' = update_branch(fY0, fSize, largest_text)
    /\ largest_text' = update_largest_text(fLine, fY0, fSize, largest_text)
    /\ fed' = Append(fed, [line |-> fLine, y0 |-> fY0, size |-> fSize])
    /\ fText' = fText \o fLine \o <<"\n">>
    /\ fLine' = child.text
    /\ fY0' = child.y0
    /\ fSize' = child.size
    /\ char_previous_x1' = child.x1
    /\ fState' = "INIT_D"
    /\ UNCHANGED char_distance

\* Lines 206-215: the state and the typical distance after the first chain
\* of tests (the previous right edge changes in INIT_X only).
CalibratedDistance(cur) ==
    IF fState = "INIT_D"
    THEN LET d == IF char_distance > 0 /\ 2 * cur < 5 * char_distance
                  THEN cur ELSE char_distance
         IN  IF d < 10 THEN 10 ELSE d
    ELSE char_distance

CalibratedState ==
    IF fState = "INIT_X" THEN "INIT_D"
    ELSE IF fState = "INIT_D" THEN "INSIDE_WORD"
    ELSE fState

\* Lines 196-239: a character of the size of the current line.
SameLine(child) ==
    LET cur == Abs(child.x0 - char_previous_x1)
        st == CalibratedState
        d == CalibratedDistance(cur)
        x1 == IF fState = "INIT_X" THEN child.x1 ELSE char_previous_x1
        decreased == st = "INSIDE_WORD" /\ child.x1 < x1
        space == st = "INSIDE_WORD" /\ 2 * cur > 17 * d
        drift == st = "INSIDE_WORD" /\ cur > d /\ 2 * cur < 5 * d
        sep == IF decreased \/ space THEN <<" ">> ELSE <<>>
    IN  /\ fState' = (IF decreased THEN "INIT_D" ELSE st)
        /\ char_distance' = (IF ~decreased /\ ~space /\ drift THEN cur ELSE d)
        /\ char_previous_x1' = child.x1
        /\ fLine' = fLine \o sep \o
                        (IF empty_str(child.text) THEN <<>> ELSE child.text)
        /\ UNCHANGED <<fText, fY0, fSize, trackVars>>

\* One LTChar child of the figure.
FigureChar(child) ==
    /\ fPc = "loop"
    /\ Len(glyphs) < MaxGlyphs
    /\ glyphs' = Append(glyphs, child)
    /\ IF child.size # fSize THEN NewLine(child) ELSE SameLine(child)
    /\ UNCHANGED fPc
    /\ UNCHANGED figRest

\* Lines 175-176: a child that is no LTChar is skipped.
FigureOther ==
    /\ fPc = "loop"
    /\ Len(glyphs) < MaxGlyphs
    /\ glyphs' = Append(glyphs,
                    [char |-> FALSE, text |-> <<>>, x0 |-> 0, x1 |-> 0,
                     y0 |-> 0, size |-> 0, gap |-> 0])
    /\ UNCHANGED <<fText, fLine, fY0, fSize, char_distance, char_previous_x1,
                   fState, fPc, trackVars>>
    /\ UNCHANGED figRest

\* Line 240: the loop is over, (largest_text, text) is returned.
FigureReturn ==
    /\ fPc = "loop"
    /\ fPc' = "done"
    /\ UNCHANGED <<fText, fLine, fY0, fSize, char_distance, char_previous_x1,
                   fState, glyphs, trackVars>>
    /\ UNCHANGED figRest

(***************************************************************************)
(* The children of a figure: each character is placed after the right edge *)
(* of the character before it, at a distance `gap`, or back at the left    *)
(* margin (gap "cr"); it is 0.5 wide.                                      *)
(***************************************************************************)
GlyphTexts == { <<"a">>, <<" ">> }
\* 0, 12 and 18
GlyphSizes == {0, 120000000, 180000000}
\* An overlap of 0.02, then 0.02, 0.15 and 1.0
GlyphGaps == {0 - 2, 2, 15, 100}

Chars == SelectSeq(glyphs, LAMBDA g : g.char)
LastX1 == IF Len(Chars) = 0 THEN 0 ELSE Chars[Len(Chars)].x1
LastSize == IF Len(Chars) = 0 THEN 0 ELSE Chars[Len(Chars)].size

Glyph(t, size, x0, gap) ==
    [char |-> TRUE, text |-> t, x0 |-> x0, x1 |-> x0 + 50, y0 |-> 10000000,
     size |-> size, gap |-> gap]

FigNext ==
    \/ \E t \in GlyphTexts, size \in GlyphSizes, gap \in GlyphGaps :
           /\ (size # LastSize => gap = 2)
           /\ LastX1 + gap >= 0
           /\ FigureChar(Glyph(t, size, LastX1 + gap, gap))
    \/ \E t \in GlyphTexts : FigureChar(Glyph(t, LastSize, 0, 0 - 1000))
    \/ FigureOther
    \/ FigureReturn

(***************************************************************************)
(* The orchestrator and its tiers (src/pdftitle.py:82-88, 281-363).        *)
(***************************************************************************)
\* The last position of character c in p, 0 when there is none (rfind + 1).
LastIndex(p, c) ==
    LET at == {i \in 1..Len(p) : p[i] = c}
    IN  IF at = {} THEN 0 ELSE CHOOSE i \in at : \A k \in at : i >= k

\* os.path.splitext: the extension starts at the last dot of the last path
\* component, unless only dots stand before it in that component.
splitext(p) ==
    LET sepIndex == LastIndex(p, "/")
        dotIndex == LastIndex(p, ".")
    IN  IF dotIndex > sepIndex
           /\ \E k \in (sepIndex + 1)..(dotIndex - 1) : p[k] # "."
        THEN <<SubSeq(p, 1, dotIndex - 1), SubSeq(p, dotIndex, Len(p))>>
        ELSE <<p, <<>>>>

\* os.path.basename
basename(p) == SubSeq(p, LastIndex(p, "/") + 1, Len(p))

\* Lines 281-285, with the 0-based index of Python.
title_start(lines) ==
    LET ok == {i \in 0..(Len(lines) - 1) :
                  ~empty_str(lines[i + 1]) /\ ~junk_line(lines[i + 1])}
    IN  IF ok = {} THEN 0 ELSE CHOOSE i \in ok : \A k \in ok : i <= k

\* Lines 287-291: the index of the first empty line among the max_lines
\* lines after `start`, and start + 1 when none of them is empty.
title_end(lines, start) ==
    LET empty == {i \in (start + 1)..(start + max_lines) :
                     i <= Len(lines) - 1 /\ empty_str(lines[i + 1])}
    IN  IF empty = {} THEN start + 1
        ELSE CHOOSE i \in empty : \A k \in empty : i <= k

\* Lines 299-302 and 323-327: ' '.join(line.strip() for line in lines[i:j])
WindowTitle(out) ==
    LET lines == split(strip(out), "\n")
        i == title_start(lines)
        j == title_end(lines, i)
    IN  join(<<" ">>, [k \in 1..(j - i) |-> strip(lines[i + k])])

\* Lines 306-310 and 329-333: the dots, then tabs and newlines, are removed.
StripDots(t) ==
    LET kept == {c \in Range(t) : c \notin {".", "\t", "\n"}} IN Filter(t, kept)

\* Lines 82-88
meta_title(d) ==
    IF ~d.meta.docinfo THEN <<>> ELSE d.meta.title

\* Lines 293-312, from what pdf_text returned
text_title(d) ==
    StripDots(IF empty_str(d.layout.contents)
              THEN WindowTitle(d.layout.text)
              ELSE strip(d.layout.contents))

\* Lines 314-335, from what pdftotext wrote
pdftotext_title(d) == StripDots(WindowTitle(join(<<"\n">>, d.dump.lines)))

\* Lines 337-338
valid_title(title) ==
    ~empty_str(title) /\ ~junk_line(title) /\ empty_str(splitext(title)[2])

\* Line 363
filename_title(d) == basename(splitext(d.filename.path)[1])

\* A file opened and never closed by the code (lines 85 and 243): the file
\* object is released when the interpreter finalizes it, at once or, when
\* a reference cycle or a traceback keeps it, at some later time.
Unclosed(h) == IF gc = "deferred" THEN handles \cup {h} ELSE handles

\* Lines 318-322: communicate() waits for the process and closes its pipes.
Communicated(h) == (handles \cup {h}) \ {h}

Return(title, tier) ==
    /\ tOutcome' = "returned"
    /\ tResult' = title
    /\ tSource' = tier
    /\ tPc' = "done"

\* Lines 343-349: the metadata tier, any exception caught.
MetaTier ==
    /\ tPc = "meta"
    /\ tInvoked' = Append(tInvoked, "meta")
    /\ IF ~doc.meta.raises /\ valid_title(meta_title(doc))
       THEN Return(meta_title(doc), "meta")
       ELSE tPc' = "layout" /\ UNCHANGED <<tOutcome, tResult, tSource>>
    /\ handles' = Unclosed("meta_file")
    /\ UNCHANGED <<doc, gc, titleRest>>

\* A variant of the layout tier without the try of line 351.
LayoutTierUncaught ==
    /\ tPc = "layout"
    /\ tInvoked' = Append(tInvoked, "layout")
    /\ IF doc.layout.raises
       THEN /\ tOutcome' = "raised"
            /\ tSource' = "layout"
            /\ tPc' = "done"
            /\ UNCHANGED tResult
       ELSE IF valid_title(text_title(doc))
       THEN Return(text_title(doc), "layout")
       ELSE tPc' = "dump" /\ UNCHANGED <<tOutcome, tResult, tSource>>
    /\ handles' = Unclosed("pdf_text_file")
    /\ UNCHANGED <<doc, gc, titleRest>>

\* Lines 351-357: the layout tier, any exception caught.
LayoutTier ==
    /\ tPc = "layout"
    /\ tInvoked' = Append(tInvoked, "layout")
    /\ IF ~doc.layout.raises /\ valid_title(text_title(doc))
       THEN Return(text_title(doc), "layout")
       ELSE tPc' = "dump" /\ UNCHANGED <<tOutcome, tResult, tSource>>
    /\ handles' = Unclosed("pdf_text_file")
    /\ UNCHANGED <<doc, gc, titleRest>>

\* Lines 359-361: the external dump tier; nothing catches what it raises.
DumpTier ==
    /\ tPc = "dump"
    /\ tInvoked' = Append(tInvoked, "dump")
    /\ IF doc.dump.raises
       THEN /\ tOutcome' = "raised"
            /\ tSource' = "dump"
            /\ tPc' = "done"
            /\ UNCHANGED tResult
       ELSE IF valid_title(pdftotext_title(doc))
       THEN Return(pdftotext_title(doc), "dump")
       ELSE tPc' = "filename" /\ UNCHANGED <<tOutcome, tResult, tSource>>
    /\ handles' = Communicated("pdftotext")
    /\ UNCHANGED <<doc, gc, titleRest>>

\* Line 363: the final fallback.
FilenameTier ==
    /\ tPc = "filename"
    /\ tInvoked' = Append(tInvoked, "filename")
    /\ Return(filename_title(doc), "filename")
    /\ handles' = handles
    /\ UNCHANGED <<doc, gc, titleRest>>

(***************************************************************************)
(* The documents pdf_title is called on.                                   *)
(***************************************************************************)
TitleRobust == <<"R", "o", "b", "u", "s", "t">>
FileNames ==
    { [path |-> <<"d", ".", "e", "/", "f", ".", "p", "d", "f">>, stem |-> <<"f">>],
      [path |-> <<"d", "i", "r", "/", "N", "o", "t", "e", "s">>, stem |-> <<"N", "o", "t", "e", "s">>] }

\* The metadata: unreadable, without document information, without a title,
\* with a title, with a title that has an extension.
Metas ==
    { [raises |-> TRUE, docinfo |-> FALSE, title |-> <<>>],
      [raises |-> FALSE, docinfo |-> FALSE, title |-> <<>>],
      [raises |-> FALSE, docinfo |-> TRUE, title |-> <<>>],
      [raises |-> FALSE, docinfo |-> TRUE, title |-> TitleRobust],
      [raises |-> FALSE, docinfo |-> TRUE, title |-> TitleRobust \o <<".", "p", "d", "f">>] }

\* What pdf_text gives: an exception, or a candidate and the raw text.
Layouts ==
    { [raises |-> TRUE, contents |-> <<>>, text |-> <<>>],
      [raises |-> FALSE, contents |-> <<>>, text |-> <<>>],
      [raises |-> FALSE, contents |-> <<"D", "e", "e", "p", " ", "L", "e", "a", "r", "n", "i", "n", "g", " ", "\n">>, text |-> <<>>],
      [raises |-> FALSE, contents |-> <<>>, text |-> <<"\n", "1", "2", "\n", "E", "s", "t", "i", "m", "a", "t", "i", "o", "n", "\n">>],
      [raises |-> FALSE, contents |-> <<"T", "i", "t", "l", "e">>, text |-> <<"R", "o", "b", "u", "s", "t", "\n">>] }

\* The lines pdftotext writes: a blank line, two lines too short for a
\* title, and one that is long enough.
DumpLines == { <<>>, <<"D", "e", "e", "p">>, <<"L", "e", "a", "r", "n">>, TitleRobust }

Dumps ==
    {[raises |-> TRUE, lines |-> <<>>]} \cup
    {[raises |-> FALSE, lines |-> l] :
        l \in UNION {[1..n -> DumpLines] : n \in 0..MaxDumpLines}}

Docs == [filename : FileNames, meta : Metas, layout : Layouts, dump : Dumps]

(***************************************************************************)
(* pdf_text (src/pdftitle.py:138-155, 242-279) and the main program        *)
(* (lines 384-386) on a one-page document: a line of large type among two  *)
(* lines of body text.  The page is described by how it delivers its text  *)
(* and where the large line stands; its layout objects are computed from   *)
(* that description.                                                       *)
(***************************************************************************)
PageTitle == <<"R", "o", "b", "u", "s", "t", " ", "M", "e", "t", "h", "o", "d", "s">>
BodyCid == <<"(", "c", "i", "d", ":", "1", ")", "a", "b">>
BodyWords == <<"a", "b", "c", "d", " ", "a", "b", "c">>
\* 18 and 10
TitleSize == 180000000
BodySize == 100000000

\* A character of the page, 0.5 wide.
PageGlyph(t, size, y0, x0, gap) ==
    [char |-> TRUE, text |-> <<t>>, x0 |-> x0, x1 |-> x0 + 50, y0 |-> y0,
     size |-> size, gap |-> gap]

\* The newline pdfminer puts at the end of a text line, which is no LTChar.
LTAnno ==
    [char |-> FALSE, text |-> <<"\n">>, x0 |-> 0, x1 |-> 0, y0 |-> 0,
     size |-> 0, gap |-> 0]

\* The characters of the line s from the left margin on.  With `spaces`
\* every blank is a character of its own, 0.02 after the one before it;
\* without, a blank is no character but a distance of 1.0 more.
GlyphRun(s, size, y0, spaces) ==
    LET shown == SelectSeq([i \in 1..Len(s) |-> i],
                           LAMBDA i : spaces \/ s[i] # " ")
        Blanks(i) == Cardinality({k \in 1..(i - 1) : s[k] = " "})
        X0(i) == IF spaces THEN 52 * (i - 1)
                 ELSE 52 * (i - 1 - Blanks(i)) + 100 * Blanks(i)
        Gap(i) == IF i = 1 THEN 0
                  ELSE IF ~spaces /\ s[i - 1] = " " THEN 102 ELSE 2
    IN  [n \in 1..Len(shown) |->
            PageGlyph(s[shown[n]], size, y0, X0(shown[n]), Gap(shown[n]))]

\* An LTTextLine: its characters and the final newline.
TextLine(l) == [chars |-> GlyphRun(l.text, l.size, l.y0, TRUE) \o <<LTAnno>>]

\* The three lines of the page from top to bottom, at y = 3, 2 and 1.
PageLines(p) ==
    [k \in 1..3 |->
        IF k = p.before + 1
        THEN [text |-> PageTitle, size |-> TitleSize, y0 |-> (4 - k) * 10000000]
        ELSE [text |-> p.body, size |-> BodySize, y0 |-> (4 - k) * 10000000]]

\* The layout objects of the page: a rule, then the text as one figure, as
\* one text box, as one text box per line or as bare text lines.
lt_objs(p) ==
    LET ls == PageLines(p)
        rule == [kind |-> "other", children |-> <<>>]
    IN  <<rule>> \o
        (CASE p.delivery \in {"figure_gaps", "figure_spaces"} ->
                 << [kind |-> "figure",
                     children |->
                         Flat([k \in 1..3 |->
                             GlyphRun(ls[k].text, ls[k].size, ls[k].y0,
                                      p.delivery = "figure_spaces")])] >>
           [] p.delivery = "box" ->
                 << [kind |-> "box", children |-> [k \in 1..3 |-> TextLine(ls[k])]] >>
           [] p.delivery = "boxes" ->
                 [k \in 1..3 |-> [kind |-> "box", children |-> <<TextLine(ls[k])>>]]
           [] p.delivery = "lines" ->
                 [k \in 1..3 |-> [kind |-> "line", children |-> TextLine(ls[k]).chars]])

\* get_text() of a run of characters, of a text box and of a layout object
CharsText(chars) == Flat([i \in 1..Len(chars) |-> chars[i].text])
BoxText(lines) == Flat([i \in 1..Len(lines) |-> CharsText(lines[i].chars)])
get_text(obj) ==
    IF obj.kind = "box" THEN BoxText(obj.children) ELSE CharsText(obj.children)

\* Lines 145-149 and 150-154: the first LTChar after the first two children
\* gives the size and the y-coordinate of the text.
SizedBy(chars, text, largest) ==
    LET at == {j \in 3..Len(chars) : chars[j].char}
    IN  IF at = {} THEN largest
        ELSE LET c == chars[CHOOSE j \in at : \A k \in at : j <= k]
             IN  update_largest_text(text, c.y0, c.size, largest)

RECURSIVE ExtractLines(_, _, _)
\* Lines 142-149: the text lines of a text box from the i-th on.
ExtractLines(lines, i, largest) ==
    IF i > Len(lines) THEN largest
    ELSE ExtractLines(lines, i + 1,
             SizedBy(lines[i].chars, CharsText(lines[i].chars), largest))

\* Lines 138-155
extract_largest_text(obj, largest) ==
    IF obj.kind = "box" THEN ExtractLines(obj.children, 1, largest)
    ELSE SizedBy(obj.children, get_text(obj), largest)

\* Where a match of \(cid:[0-9 \t-]*\) that starts at i ends, 0 without one.
CidEnd(s, i) ==
    IF ~StartsAt(s, i, <<"(", "c", "i", "d", ":">>) THEN 0
    ELSE LET stop == {j \in (i + 5)..Len(s) :
                         s[j] \notin (digits \cup {" ", "\t", "-"})}
         IN  IF stop = {} THEN 0
             ELSE LET j == CHOOSE x \in stop : \A y \in stop : x <= y
                  IN  IF s[j] = ")" THEN j + 1 ELSE 0

\* Line 276: re.sub(r'(\(cid:[0-9 \t-]*\))*', '', contents)
SubCid(s) ==
    LET gone == {i \in 1..Len(s) :
                    \E k \in 1..i : CidEnd(s, k) > i}
        kept == SelectSeq([i \in 1..Len(s) |-> i], LAMBDA i : i \notin gone)
    IN  [n \in 1..Len(kept) |-> s[kept[n]]]

\* The object and the child the loops of pdf_text and extract_figure_text
\* are at.
Objects == lt_objs(page)
Object == Objects[pObj]
Child == Object.children[pChild]

\* Lines 243-257: the document is opened, the text and the candidate are
\* empty.
PdfTextOpen ==
    /\ tPc = "layout" /\ pPc = "called"
    /\ largest_text' = EmptyCandidate
    /\ fed' = <<>> /\ prev' = EmptyCandidate /\ branch' = "none"
    /\ pText' = <<>>
    /\ pObj' = 1
    /\ pPc' = "objects"
    /\ UNCHANGED <<page, pChild, pOut, figVars, titleVars, pageRest>>

\* Lines 266-273: a text box or a text line, left out when it holds more
\* than 2 * MAX_CHARS characters that are no blanks; any other object that
\* is no figure is passed over.
PdfTextBlock ==
    /\ pPc = "objects" /\ pObj <= Len(Objects)
    /\ Object.kind # "figure"
    /\ LET text == get_text(Object)
           stripped_to_chars == Filter(strip(text), Range(text) \ {" ", "\t", "\n"})
           read == Object.kind # "other" /\ Len(stripped_to_chars) <= MAX_CHARS * 2
       IN  /\ largest_text' = (IF read THEN extract_largest_text(Object, largest_text)
                               ELSE largest_text)
           /\ pText' = (IF read THEN pText \o text \o <<"\n">> ELSE pText)
    /\ pObj' = pObj + 1
    /\ UNCHANGED <<fed, prev, branch, page, pChild, pPc, pOut, figVars, titleVars, pageRest>>

\* Lines 263-264 and 164-170: extract_figure_text is entered.
PdfTextFigure ==
    /\ pPc = "objects" /\ pObj <= Len(Objects)
    /\ Object.kind = "figure"
    /\ fText' = <<>> /\ fLine' = <<>> /\ fY0' = 0 /\ fSize' = 0
    /\ char_distance' = 0 /\ char_previous_x1' = 0 /\ fState' = "INIT_X"
    /\ glyphs' = <<>> /\ fPc' = "loop"
    /\ pChild' = 1
    /\ pPc' = "figure"
    /\ UNCHANGED <<page, pObj, pText, pOut, trackVars, titleVars, pageRest>>

\* Lines 171-239: one child of the figure.
PdfTextFigureChild ==
    /\ pPc = "figure" /\ pChild <= Len(Object.children)
    /\ glyphs' = Append(glyphs, Child)
    /\ IF ~Child.char
       THEN UNCHANGED <<fText, fLine, fY0, fSize, char_distance,
                        char_previous_x1, fState, trackVars>>
       ELSE IF Child.size # fSize THEN NewLine(Child) ELSE SameLine(Child)
    /\ pChild' = pChild + 1
    /\ UNCHANGED <<fPc, page, pObj, pText, pPc, pOut, titleVars, pageRest>>

\* Lines 240 and 264-265: the figure is read, its text is added to the text
\* of the page.
PdfTextFigureReturn ==
    /\ pPc = "figure" /\ pChild > Len(Object.children)
    /\ fPc' = "done"
    /\ pText' = pText \o fText
    /\ pObj' = pObj + 1
    /\ pPc' = "objects"
    /\ UNCHANGED <<fText, fLine, fY0, fSize, char_distance, char_previous_x1,
                   fState, glyphs, page, pChild, pOut, trackVars, titleVars,
                   pageRest>>

\* Lines 276-279: the first page is read; text_title gets the candidate,
\* without its (cid:..) runs, and the text.
PdfTextReturn ==
    /\ pPc = "objects" /\ pObj > Len(Objects)
    /\ largest_text' = [largest_text EXCEPT !.contents = SubCid(@)]
    /\ doc' = [doc EXCEPT !.layout =
                  [raises |-> FALSE,
                   contents |-> SubCid(largest_text.contents),
                   text |-> pText]]
    /\ pPc' = "returned"
    /\ UNCHANGED <<fed, prev, branch, tPc, tInvoked, tOutcome, tResult, tSource,
                   handles, gc, page, pObj, pChild, pText, pOut, figVars, pageRest>>

\* Lines 351-357 once pdf_text has returned.
PageLayoutTier == pPc = "returned" /\ LayoutTier

\* title.split(): the words between runs of whitespace.
SplitWords(s) ==
    SelectSeq(split([i \in 1..Len(s) |-> IF s[i] \in whitespace THEN " " ELSE s[i]], " "),
              LAMBDA w : w # <<>>)

\* Lines 385-386 and 396: the title is sanitized and printed.
MainPrint ==
    /\ pPc = "returned" /\ tPc = "done" /\ tOutcome = "returned"
    /\ pOut' = sanitize(join(<<" ">>, SplitWords(tResult)), FALSE)
    /\ pPc' = "printed"
    /\ UNCHANGED <<page, pObj, pChild, pText, trackVars, figVars, titleVars, pageRest>>

\* The pages and the documents the main program is run on.
Deliveries == {"figure_gaps", "figure_spaces", "box", "boxes", "lines"}
Pages ==
    [delivery : Deliveries, before : 0..2, body : {BodyCid, BodyWords}]
    \cup [delivery : {"boxes"}, before : 0..2, body : {Repeat(<<"a">>, 2 * MAX_CHARS + 1)}]

PageInit ==
    /\ page \in Pages
    /\ pObj = 0 /\ pChild = 0 /\ pText = <<>> /\ pPc = "called" /\ pOut = <<>>
    /\ doc \in [filename : FileNames,
                meta : {m \in Metas : ~m.raises /\ m.title = <<>>},
                layout : {[raises |-> FALSE, contents |-> <<>>, text |-> <<>>]},
                dump : {[raises |-> FALSE, lines |-> <<>>]}]
    /\ tPc = "meta" /\ tInvoked = <<>> /\ tOutcome = "running"
    /\ tResult = <<>> /\ tSource = "none"
    /\ handles = {} /\ gc \in {"prompt", "deferred"}

PageNext ==
    \/ MetaTier
    \/ PdfTextOpen
    \/ PdfTextBlock
    \/ PdfTextFigure
    \/ PdfTextFigureChild
    \/ PdfTextFigureReturn
    \/ PdfTextReturn
    \/ PageLayoutTier
    \/ DumpTier
    \/ FilenameTier
    \/ MainPrint


(***************************************************************************)
(* Two calls of pdf_text whose steps interleave (src/pdftitle.py:112-136,  *)
(* 253-279, 304-310).  A dictionary is an entry of `heap`; largest_text of *)
(* a call is a reference into it, so that a dictionary changed in place is *)
(* changed for every call that refers to it.                               *)
(***************************************************************************)
Workers == {1, 2}

\* The text lines a document may hold: two without a font size, one of
\* size 12 and one of size 18.
BatchLines ==
    { [line |-> <<"D">>, y0 |-> 0, size |-> 0],
      [line |-> <<"R", "\n">>, y0 |-> 0, size |-> 0],
      [line |-> <<"D">>, y0 |-> 0, size |-> 120000000],
      [line |-> <<"R", "\n">>, y0 |-> 0, size |-> 180000000] }
BatchDocs == UNION {[1..n -> BatchLines] : n \in 0..MaxBatchLines}

BatchInit ==
    /\ heap = <<>>
    /\ wDoc \in [Workers -> BatchDocs]
    /\ wLines = wDoc
    /\ wRef = [w \in Workers |-> 0]
    /\ wPc = [w \in Workers |-> "called"]
    /\ wTitle = [w \in Workers |-> <<>>]

\* A variant of BatchOpen in which the empty candidate is one dictionary
\* made once and used by every call.
BatchOpenShared(w) ==
    /\ wPc[w] = "called"
    /\ heap' = (IF heap = <<>> THEN <<EmptyCandidate>> ELSE heap)
    /\ wRef' = [wRef EXCEPT ![w] = 1]
    /\ wPc' = [wPc EXCEPT ![w] = "lines"]
    /\ UNCHANGED <<wDoc, wLines, wTitle>>
    /\ UNCHANGED batchRest

\* Lines 253-257: the call makes its own dictionary.
BatchOpen(w) ==
    /\ wPc[w] = "called"
    /\ heap' = Append(heap, EmptyCandidate)
    /\ wRef' = [wRef EXCEPT ![w] = Len(heap) + 1]
    /\ wPc' = [wPc EXCEPT ![w] = "lines"]
    /\ UNCHANGED <<wDoc, wLines, wTitle>>
    /\ UNCHANGED batchRest

\* Lines 112-136 on the next line of the document: lines 126-130 bind
\* largest_text to a new dictionary, lines 133-134 change the dictionary in
\* place.
BatchLine(w) ==
    /\ wPc[w] = "lines" /\ wLines[w] # <<>>
    /\ LET l == Head(wLines[w])
           b == update_branch(l.y0, l.size, heap[wRef[w]])
           new == update_largest_text(l.line, l.y0, l.size, heap[wRef[w]])
       IN  IF b = "replace"
           THEN /\ heap' = Append(heap, new)
                /\ wRef' = [wRef EXCEPT ![w] = Len(heap) + 1]
           ELSE /\ heap' = [heap EXCEPT ![wRef[w]] = new]
                /\ UNCHANGED wRef
    /\ wLines' = [wLines EXCEPT ![w] = Tail(@)]
    /\ UNCHANGED <<wDoc, wPc, wTitle>>
    /\ UNCHANGED batchRest

\* Lines 276-279 and 304-310: the title of the candidate.
CandidateTitle(c) ==
    text_title([layout |-> [contents |-> SubCid(c.contents), text |-> <<>>]])

BatchReturn(w) ==
    /\ wPc[w] = "lines" /\ wLines[w] = <<>>
    /\ heap' = [heap EXCEPT ![wRef[w]].contents = SubCid(@)]
    /\ wTitle' = [wTitle EXCEPT ![w] = CandidateTitle(heap[wRef[w]])]
    /\ wPc' = [wPc EXCEPT ![w] = "done"]
    /\ UNCHANGED <<wDoc, wLines, wRef>>
    /\ UNCHANGED batchRest

BatchNext ==
    \E w \in Workers : BatchOpen(w) \/ BatchLine(w) \/ BatchReturn(w)

(***************************************************************************)
(* write_with_backup (src/utils.py:135-167).  The file system is the       *)
(* content of the file, NoFile when there is none, and the contents of its *)
(* backups .bak, .bak.1, .bak.2, ... in this order: a backup is always     *)
(* made under the first of these names that is free.                       *)
(***************************************************************************)
NoFile == "absent"
FileContents == {"A", "B", "C"}

\* os.path.exists of the k-th backup name, .bak being the first.
BackupExists(fs, k) == k <= Len(fs.bak)

\* Lines 148-155: the loop over the backups that exist finds one that
\* filecmp.cmp reports equal to the file.
SameAsBackup(fs) ==
    \E k \in 1..Len(fs.bak) : BackupExists(fs, k) /\ fs.bak[k] = fs.main

\* A variant that moves the file to the name .bak whenever it backs it up.
write_with_backup_one_name(fs, new_content, use_backup) ==
    IF use_backup /\ BackupExists(fs, 1) /\ fs.main = NoFile
    THEN [fs |-> fs, outcome |-> "raised"]
    ELSE IF use_backup /\ SameAsBackup(fs)
    THEN [fs |-> fs, outcome |-> "returned"]
    ELSE IF use_backup /\ fs.main # NoFile /\ new_content = fs.main
    THEN [fs |-> fs, outcome |-> "returned"]
    ELSE IF use_backup /\ fs.main # NoFile
    THEN [fs |-> [main |-> new_content,
                  bak |-> IF BackupExists(fs, 1)
                          THEN [fs.bak EXCEPT ![1] = fs.main]
                          ELSE <<fs.main>>],
          outcome |-> "returned"]
    ELSE [fs |-> [fs EXCEPT !.main = new_content], outcome |-> "returned"]

\* Lines 135-167: the file system after the call, and how the call ended.
write_with_backup(fs, new_content, use_backup) ==
    IF use_backup /\ BackupExists(fs, 1) /\ fs.main = NoFile
    THEN \* line 152: filecmp.cmp raises, there is no file to compare
         [fs |-> fs, outcome |-> "raised"]
    ELSE IF use_backup /\ SameAsBackup(fs)
    THEN \* line 153
         [fs |-> fs, outcome |-> "returned"]
    ELSE IF use_backup /\ fs.main # NoFile /\ new_content = fs.main
    THEN \* line 159
         [fs |-> fs, outcome |-> "returned"]
    ELSE IF use_backup /\ fs.main # NoFile
    THEN \* lines 162-167
         [fs |-> [main |-> new_content, bak |-> Append(fs.bak, fs.main)],
          outcome |-> "returned"]
    ELSE \* lines 166-167
         [fs |-> [fs EXCEPT !.main = new_content], outcome |-> "returned"]

\* The file is there or not, and has no backup yet.
BackupInit ==
    /\ files \in [main : {NoFile} \cup FileContents, bak : {<<>>}]
    /\ bWrites = 0
    /\ bLast = <<>>

\* One call, as those of src/autobib.py:73-79.
WriteWithBackup(new_content, use_backup) ==
    /\ bWrites < MaxWrites
    /\ LET r == write_with_backup(files, new_content, use_backup)
       IN  /\ files' = r.fs
           /\ bLast' = [new_content |-> new_content, use_backup |-> use_backup,
                        before |-> files, outcome |-> r.outcome]
    /\ bWrites' = bWrites + 1
    /\ UNCHANGED backupRest

BackupNext ==
    \E c \in FileContents, b \in BOOLEAN : WriteWithBackup(c, b)

(***************************************************************************)
(* gen_bibkey (src/nomenclature.py:114-158).  A record has its authors in  *)
(* the form "Last, First" that bibtexparser's author customization gives   *)
(* them (line 132); the texts of the model hold no LaTeX command, which    *)
(* the decoding of line 136 would replace.                                 *)
(***************************************************************************)
Missing == "missing"

UpperChar(c) ==
    CASE c = "a" -> "A" [] c = "b" -> "B" [] c = "c" -> "C" [] c = "d" -> "D"
      [] c = "e" -> "E" [] c = "f" -> "F" [] c = "g" -> "G" [] c = "h" -> "H"
      [] c = "i" -> "I" [] c = "j" -> "J" [] c = "k" -> "K" [] c = "l" -> "L"
      [] c = "m" -> "M" [] c = "n" -> "N" [] c = "o" -> "O" [] c = "p" -> "P"
      [] c = "q" -> "Q" [] c = "r" -> "R" [] c = "s" -> "S" [] c = "t" -> "T"
      [] c = "u" -> "U" [] c = "v" -> "V" [] c = "w" -> "W" [] c = "x" -> "X"
      [] c = "y" -> "Y" [] c = "z" -> "Z" [] OTHER -> c

\* s.upper()
upper(s) == [i \in 1..Len(s) |-> UpperChar(s[i])]

\* src/utils.py:46-48: the combining marks of the decomposed text are
\* dropped, so that a letter with an accent becomes its base letter.
strip_accents(s) == [i \in 1..Len(s) |-> IF s[i] = "é" THEN "e" ELSE s[i]]

\* src/utils.py:60-67
get_title(record) ==
    IF record.booktitle # Missing /\ record.ENTRYTYPE = "book"
    THEN IF record.title # <<>>
         THEN record.booktitle \o <<" ", "-", " ">> \o record.title
         ELSE record.booktitle
    ELSE record.title

\* Lines 135-139: the last name of the first author, its letters only.
last_name(record) ==
    LET stripped == strip_accents(record.author[1])
        name == split(stripped, ",")[1]
        replaced == [i \in 1..Len(name) |-> IF name[i] = "ø" THEN "o" ELSE name[i]]
    IN  Filter(replaced, ascii_letters)

\* Line 142: the words of the title, what is no letter being a blank.
TitleWords(record) ==
    LET title == get_title(record)
    IN  SplitWords([i \in 1..Len(title) |->
                       IF title[i] \in ascii_letters THEN title[i] ELSE " "])

\* Lines 143-145: the initials of the words, then the rest of the last
\* word, cut to three characters, in upper case.
short_title(record) ==
    LET words == TitleWords(record)
        initials == [k \in 1..Len(words) |-> words[k][1]]
    IN  upper(Slice(initials \o Tail(words[Len(words)]), 1, 3))

\* Line 148
basekey(record) ==
    last_name(record) \o <<":">> \o record.year \o <<":">> \o short_title(record)

\* Lines 126-129 and 144: a field is missing, or the title has no letter.
Raises(record) ==
    \/ record.year = Missing \/ record.title = Missing \/ record.author = Missing
    \/ TitleWords(record) = <<>>

\* chr(ord('a') + n - 1) for n = 1, 2, ...
Tails ==
    <<"a", "b", "c", "d", "e", "f", "g", "h", "i", "j", "k", "l", "m", "n",
      "o", "p", "q", "r", "s", "t", "u", "v", "w", "x", "y", "z", "{", "|",
      "}", "~">>

\* The key tried after n turns of the loop of lines 153-155.
TriedKey(base, n) == IF n = 0 THEN base ELSE base \o <<Tails[n]>>

\* A variant of gen_bibkey that tries the tail 'a' only.
gen_bibkey_one_tail(record, keys) ==
    IF basekey(record) \in keys THEN TriedKey(basekey(record), 1)
    ELSE basekey(record)

\* Lines 148-158: the first key tried that is not in all_keys.
gen_bibkey(record, keys) ==
    LET base == basekey(record)
        free == {n \in 0..Cardinality(keys) : TriedKey(base, n) \notin keys}
    IN  TriedKey(base, CHOOSE n \in free : \A k \in free : n <= k)

\* The records: three with the key Doe:2020:ABC, a book, one whose title
\* has no letter and one without a year.
KeyDoe == <<"D", "o", "e", ":", "2", "0", "2", "0", ":", "A", "B", "C">>
Year2020 == <<"2", "0", "2", "0">>
Records ==
    { [author |-> << <<"D", "o", "e", ",", " ", "J">> >>, year |-> Year2020,
       title |-> <<"A", " ", "b", " ", "c">>, booktitle |-> Missing,
       ENTRYTYPE |-> "article"],
      [author |-> << <<"D", "'", "o", "é", ",", " ", "J">> >>, year |-> Year2020,
       title |-> <<"A", "b", "c">>, booktitle |-> Missing,
       ENTRYTYPE |-> "article"],
      [author |-> << <<"D", "ø", "e">>, <<"R", "o", "e", ",", " ", "K">> >>,
       year |-> Year2020, title |-> <<"a", "-", "b", "c", "d">>,
       booktitle |-> Missing, ENTRYTYPE |-> "article"],
      [author |-> << <<"D", "o", "e", ",", " ", "J">> >>, year |-> Year2020,
       title |-> <<"c">>, booktitle |-> <<"A", "b">>, ENTRYTYPE |-> "book"],
      [author |-> << <<"D", "o", "e", ",", " ", "J">> >>, year |-> Year2020,
       title |-> <<"1", "2">>, booktitle |-> Missing, ENTRYTYPE |-> "article"],
      [author |-> << <<"D", "o", "e", ",", " ", "J">> >>, year |-> Missing,
       title |-> <<"A", "b", "c">>, booktitle |-> Missing,
       ENTRYTYPE |-> "article"] }

\* The context the caller passes: empty (src/autobib.py:142-147), or with
\* keys of other files.
KeyInit ==
    /\ all_keys \in SUBSET {KeyDoe, KeyDoe \o <<"a">>}
    /\ kBefore = {}
    /\ kReturned = <<>>

\* One call of gen_bibkey(record, all_keys).
GenBibkey(record) ==
    /\ Len(kReturned) < MaxKeyCalls
    /\ kBefore' = all_keys
    /\ IF Raises(record)
       THEN /\ kReturned' = Append(kReturned, [outcome |-> "raised", key |-> <<>>])
            /\ UNCHANGED all_keys
       ELSE LET bibkey == gen_bibkey(record, all_keys)
            IN  /\ all_keys' = all_keys \cup {bibkey}
                /\ kReturned' = Append(kReturned,
                                       [outcome |-> "returned", key |-> bibkey])
    /\ UNCHANGED keyRest

KeyNext == \E record \in Records : GenBibkey(record)

(***************************************************************************)
(* rename_folder (src/autobib.py:155-210) and gen_filename                 *)
(* (src/nomenclature.py:67-111).  An entry has its authors in the form     *)
(* "Last, First" (line 78); the texts of the model hold no LaTeX command   *)
(* and no long dash.                                                       *)
(***************************************************************************)
\* Lines 80-90: the last names, without braces, accents and ties.
last_names(record) ==
    [k \in 1..Len(record.author) |->
        LET stripped == strip_accents(record.author[k])
            name == SelectSeq(split(stripped, ",")[1],
                              LAMBDA c : c \notin {"{", "}"})
        IN  [i \in 1..Len(name) |->
                IF name[i] = "~" THEN " "
                ELSE IF name[i] = "ø" THEN "o" ELSE name[i]]]

\* Lines 93-96
prefix(record) ==
    LET names == last_names(record)
    IN  IF Len(names) > 4
        THEN <<"(">> \o names[1] \o <<" ", "e", "t", " ", "a", "l", ".", ")", " ">>
        ELSE <<"(">> \o join(<<",", " ">>, names) \o <<")", " ">>

\* re.sub(' *: ', ' - ', title): a colon followed by a blank, with the
\* blanks before it.
SubColonDash(t) ==
    LET colon(i) == t[i] = ":" /\ i < Len(t) /\ t[i + 1] = " "
        before(i) == /\ t[i] = " "
                     /\ \E j \in (i + 1)..Len(t) :
                            colon(j) /\ \A m \in i..(j - 1) : t[m] = " "
    IN  Flat([i \in 1..Len(t) |->
            IF colon(i) THEN <<" ", "-", " ">>
            ELSE IF before(i) \/ (i > 1 /\ colon(i - 1)) THEN <<>>
            ELSE <<t[i]>>])

\* titlecase.titlecase (src/nomenclature.py:20-38) for titles whose words
\* are in lower case and are neither small words nor listed in config.py:
\* the first letter of every word, and of every part of a hyphenated word,
\* becomes a capital.
to_titlecase(t) ==
    [i \in 1..Len(t) |->
        IF i = 1 \/ t[i - 1] \in {" ", "-"} THEN UpperChar(t[i]) ELSE t[i]]

\* Lines 98-109
file_title(record) ==
    LET plain == SelectSeq(strip_accents(get_title(record)),
                           LAMBDA c : c \notin {"{", "}"})
        dashed == SubColonDash(plain)
        hyphens == [i \in 1..Len(dashed) |->
                       IF dashed[i] = "/" THEN "-" ELSE dashed[i]]
    IN  SelectSeq(to_titlecase(hyphens), LAMBDA c : c # "\"")

\* Line 111
gen_filename(record) == prefix(record) \o file_title(record) \o <<".", "p", "d", "f">>

\* src/utils.py:315-326
encode_filename_field(filename) ==
    <<":">> \o Flat([i \in 1..Len(filename) |->
                IF filename[i] = ":" THEN <<"\\", ":">> ELSE <<filename[i]>>])
        \o <<":", "P", "D", "F">>

\* src/utils.py:329-343: what stands between the first colon and the last
\* ":PDF", its escaped colons restored.
decode_filename_field(text) ==
    LET first == CHOOSE i \in 1..Len(text) :
                     text[i] = ":" /\ \A k \in 1..(i - 1) : text[k] # ":"
        ends == {i \in (first + 1)..Len(text) :
                    StartsAt(text, i, <<":", "P", "D", "F">>)}
        last == CHOOSE i \in ends : \A k \in ends : i >= k
        inner == SubSeq(text, first + 1, last - 1)
    IN  Flat([i \in 1..Len(inner) |->
            IF inner[i] = "\\" /\ i < Len(inner) /\ inner[i + 1] = ":"
            THEN <<>> ELSE <<inner[i]>>])

\* src/utils.py:192-206: the index of the last entry with each file name.
create_file_dict(fields) ==
    [name \in {decode_filename_field(fields[i]) : i \in 1..Len(fields)} |->
        CHOOSE i \in 1..Len(fields) :
            /\ decode_filename_field(fields[i]) = name
            /\ \A k \in 1..Len(fields) :
                   decode_filename_field(fields[k]) = name => k <= i]

\* os.path.exists(os.path.join(folder, name))
Exists(folder, name) == \E f \in folder : f.name = name

\* os.rename on POSIX: the destination, when it exists, is replaced.
os_rename(folder, old, new) ==
    IF old = new THEN folder
    ELSE {f \in folder : f.name \notin {old, new}}
            \cup {[name |-> new, pdf |-> f.pdf] : f \in {g \in folder : g.name = old}}

\* utils.write_with_backup on a bib file that exists and has no backup.
WriteBib(disk, content, use_backup) ==
    LET same == "A"
        other == "B"
        r == write_with_backup([main |-> same, bak |-> <<>>],
                               IF content = disk.main THEN same ELSE other,
                               use_backup).fs
        back(c) == IF c = same THEN disk.main ELSE content
    IN  [main |-> back(r.main), bak |-> [k \in 1..Len(r.bak) |-> back(r.bak[k])]]

\* The entries of biblio.bib: two that get the same file name, one that has
\* that name already, and one with five authors.
NetsDeep == <<"(", "D", "o", "e", ")", " ", "N", "e", "t", "s", " ", "-", " ", "D", "e", "e", "p", ".", "p", "d", "f">>
AuthorDoe == <<"D", "o", "e", ",", " ", "J">>
RenameEntries ==
    { [file |-> encode_filename_field(<<"a", ".", "p", "d", "f">>), author |-> <<AuthorDoe>>,
       title |-> <<"n", "e", "t", "s", ":", " ", "d", "e", "e", "p">>, booktitle |-> Missing, ENTRYTYPE |-> "article"],
      [file |-> encode_filename_field(<<"b", ".", "p", "d", "f">>), author |-> << <<"D", "o", "é", ",", " ", "J">> >>,
       title |-> <<"n", "e", "t", "s", " ", "-", " ", "d", "e", "e", "p">>, booktitle |-> Missing, ENTRYTYPE |-> "article"],
      [file |-> encode_filename_field(NetsDeep), author |-> <<AuthorDoe>>,
       title |-> <<"n", "e", "t", "s", " ", "-", " ", "d", "e", "e", "p">>, booktitle |-> Missing, ENTRYTYPE |-> "article"],
      [file |-> encode_filename_field(<<"c", ".", "p", "d", "f">>),
       author |-> <<AuthorDoe, AuthorDoe, AuthorDoe, AuthorDoe, AuthorDoe>>,
       title |-> <<"d", "e", "e", "p">>, booktitle |-> Missing, ENTRYTYPE |-> "article"] }

\* The names a pdf of the folder can have at the start.
FolderNames == {<<"a", ".", "p", "d", "f">>, <<"b", ".", "p", "d", "f">>, <<"c", ".", "p", "d", "f">>, NetsDeep}

\* Lines 170-174: the bib files are read; every pdf of the folder is known
\* by the name it has now.
RenameInit ==
    /\ rEntries \in UNION {[1..n -> RenameEntries] : n \in 1..MaxEntries}
    /\ rQueried \in {<<>>, [i \in 1..Len(rEntries) |-> rEntries[i].file]}
    /\ rFolder \in {{[name |-> n, pdf |-> n] : n \in S} : S \in SUBSET FolderNames}
    /\ rBefore = rFolder
    /\ rBib = [main |-> [i \in 1..Len(rEntries) |-> rEntries[i].file], bak |-> <<>>]
    /\ rQBib = [main |-> rQueried, bak |-> <<>>]
    /\ rPlatform \in {"posix", "windows"}
    /\ rUseBackup \in BOOLEAN
    /\ rIdx = 0
    /\ rPc = "scan"
    /\ rConfirmed = FALSE
    /\ rOutcome = "running"

\* Lines 177-190: the renames are listed; without one the call returns.
RenameScan ==
    /\ rPc = "scan"
    /\ LET need_rename ==
               \E i \in 1..Len(rEntries) :
                   /\ Exists(rFolder, decode_filename_field(rEntries[i].file))
                   /\ decode_filename_field(rEntries[i].file)
                          # gen_filename(rEntries[i])
       IN  IF need_rename
           THEN rPc' = "ask" /\ UNCHANGED rOutcome
           ELSE rPc' = "done" /\ rOutcome' = "returned"
    /\ UNCHANGED <<rEntries, rQueried, rFolder, rBefore, rBib, rQBib,
                   rPlatform, rUseBackup, rIdx, rConfirmed>>
    /\ UNCHANGED renameRest

\* Lines 193-194: the answer of the user.
RenameAnswer(cmd) ==
    /\ rPc = "ask"
    /\ IF cmd \in {"", "y", "Y"}
       THEN rConfirmed' = TRUE /\ rPc' = "loop" /\ rIdx' = 1
       ELSE rConfirmed' = FALSE /\ rPc' = "write" /\ UNCHANGED rIdx
    /\ UNCHANGED <<rEntries, rQueried, rFolder, rBefore, rBib, rQBib,
                   rPlatform, rUseBackup, rOutcome>>
    /\ UNCHANGED renameRest

\* Lines 195-206: one entry.  On Windows os.rename raises FileExistsError
\* when the destination exists.
RenameEntry ==
    /\ rPc = "loop"
    /\ LET entry == rEntries[rIdx]
           old_filename == decode_filename_field(entry.file)
           new_filename == gen_filename(entry)
           new_val == encode_filename_field(new_filename)
           queried_files == create_file_dict(rQBib.main)
           go == IF rIdx = Len(rEntries)
                 THEN rPc' = "write" /\ UNCHANGED rIdx
                 ELSE rIdx' = rIdx + 1 /\ UNCHANGED rPc
       IN  IF ~Exists(rFolder, old_filename)
           THEN go /\ UNCHANGED <<rEntries, rQueried, rFolder, rOutcome>>
           ELSE IF /\ rPlatform = "windows"
                   /\ new_filename # old_filename
                   /\ Exists(rFolder, new_filename)
           THEN /\ rPc' = "done"
                /\ rOutcome' = "raised"
                /\ UNCHANGED <<rEntries, rQueried, rFolder, rIdx>>
           ELSE /\ go
                /\ rFolder' = os_rename(rFolder, old_filename, new_filename)
                /\ rQueried' =
                       IF old_filename \in DOMAIN queried_files
                       THEN [rQueried EXCEPT
                                ![queried_files[old_filename]] = new_val]
                       ELSE rQueried
                /\ rEntries' = [rEntries EXCEPT ![rIdx].file = new_val]
                /\ UNCHANGED rOutcome
    /\ UNCHANGED <<rBefore, rBib, rQBib, rPlatform, rUseBackup, rConfirmed>>
    /\ UNCHANGED renameRest

\* Lines 209-210: the two bib files are written.
RenameWrite ==
    /\ rPc = "write"
    /\ rBib' = WriteBib(rBib, [i \in 1..Len(rEntries) |-> rEntries[i].file],
                        rUseBackup)
    /\ rQBib' = WriteBib(rQBib, rQueried, rUseBackup)
    /\ rPc' = "done"
    /\ rOutcome' = "returned"
    /\ UNCHANGED <<rEntries, rQueried, rFolder, rBefore, rPlatform,
                   rUseBackup, rIdx, rConfirmed>>
    /\ UNCHANGED renameRest

RenameNext ==
    \/ RenameScan
    \/ \E cmd \in {"", "y", "Y", "n"} : RenameAnswer(cmd)
    \/ RenameEntry
    \/ RenameWrite

(***************************************************************************)
(* Specifications: one per component, the other components idle.           *)
(***************************************************************************)
SanIdle ==
    /\ sIn = <<>> /\ sN = 0 /\ sPadded = FALSE /\ sBytes = FALSE
    /\ sOut1 = <<>> /\ sOut2 = <<>> /\ sPc = "idle"

JunkIdle == jLine = <<>> /\ jN = 0 /\ jRes = FALSE /\ jPc = "idle"

TrackIdle ==
    /\ largest_text = EmptyCandidate /\ fed = <<>> /\ prev = EmptyCandidate
    /\ branch = "idle"

FigIdle ==
    /\ fText = <<>> /\ fLine = <<>> /\ fY0 = 0 /\ fSize = 0
    /\ char_distance = 0 /\ char_previous_x1 = 0 /\ fState = "INIT_X"
    /\ glyphs = <<>> /\ fPc = "idle"

TitleIdle ==
    /\ doc = [filename |-> <<>>] /\ tPc = "idle" /\ tInvoked = <<>>
    /\ tOutcome = "idle" /\ tResult = <<>> /\ tSource = "none"
    /\ handles = {} /\ gc = "prompt"

BatchIdle ==
    /\ heap = <<>> /\ wDoc = <<>> /\ wLines = <<>> /\ wRef = <<>>
    /\ wPc = <<>> /\ wTitle = <<>>

BackupIdle == files = <<>> /\ bWrites = 0 /\ bLast = <<>>

KeyIdle == all_keys = {} /\ kBefore = {} /\ kReturned = <<>>

RenameIdle ==
    /\ rEntries = <<>> /\ rQueried = <<>> /\ rFolder = {} /\ rBefore = {}
    /\ rBib = <<>> /\ rQBib = <<>> /\ rPlatform = "posix"
    /\ rUseBackup = FALSE /\ rIdx = 0 /\ rPc = "idle" /\ rConfirmed = FALSE
    /\ rOutcome = "idle"

PageIdle ==
    /\ page = [delivery |-> "none"] /\ pObj = 0 /\ pChild = 0
    /\ pText = <<>> /\ pPc = "idle" /\ pOut = <<>>

\* pdf_title is called on a document.
TitleInit ==
    /\ doc \in Docs
    /\ tPc = "meta"
    /\ tInvoked = <<>>
    /\ tOutcome = "running"
    /\ tResult = <<>>
    /\ tSource = "none"
    /\ handles = {}
    /\ gc \in {"prompt", "deferred"}

\* The components other than the candidate tracker, the figure reader and
\* the orchestrator, not in use.
BatchBackupKeyIdle == BatchIdle /\ BackupIdle /\ KeyIdle

InitSanitize ==
    /\ SanInit /\ JunkIdle /\ TrackIdle /\ FigIdle /\ TitleIdle /\ PageIdle
    /\ BatchBackupKeyIdle /\ RenameIdle
InitJunk ==
    /\ JunkInit /\ SanIdle /\ TrackIdle /\ FigIdle /\ TitleIdle /\ PageIdle
    /\ BatchBackupKeyIdle /\ RenameIdle
InitTrack ==
    /\ TrackInit /\ SanIdle /\ JunkIdle /\ FigIdle /\ TitleIdle /\ PageIdle
    /\ BatchBackupKeyIdle /\ RenameIdle
InitFigure ==
    /\ FigInit /\ TrackInit /\ SanIdle /\ JunkIdle /\ TitleIdle /\ PageIdle
    /\ BatchBackupKeyIdle /\ RenameIdle
InitTitle ==
    /\ TitleInit /\ SanIdle /\ JunkIdle /\ TrackIdle /\ FigIdle /\ PageIdle
    /\ BatchBackupKeyIdle /\ RenameIdle
InitPage ==
    /\ PageInit /\ SanIdle /\ JunkIdle /\ TrackIdle /\ FigIdle
    /\ BatchBackupKeyIdle /\ RenameIdle
InitBatch ==
    /\ BatchInit /\ SanIdle /\ JunkIdle /\ TrackIdle /\ FigIdle /\ TitleIdle
    /\ PageIdle /\ BackupIdle /\ KeyIdle /\ RenameIdle
InitBackup ==
    /\ BackupInit /\ SanIdle /\ JunkIdle /\ TrackIdle /\ FigIdle /\ TitleIdle
    /\ PageIdle /\ BatchIdle /\ KeyIdle /\ RenameIdle
InitKey ==
    /\ KeyInit /\ SanIdle /\ JunkIdle /\ TrackIdle /\ FigIdle /\ TitleIdle
    /\ PageIdle /\ BatchIdle /\ BackupIdle /\ RenameIdle

InitRename ==
    /\ RenameInit /\ SanIdle /\ JunkIdle /\ TrackIdle /\ FigIdle /\ TitleIdle
    /\ PageIdle /\ BatchBackupKeyIdle

TitleNext == MetaTier \/ LayoutTier \/ DumpTier \/ FilenameTier

SpecSanitize == InitSanitize /\ [][SanNext]_vars
SpecJunk == InitJunk /\ [][JunkNext]_vars
SpecTrack == InitTrack /\ [][TrackNext]_vars
SpecFigure == InitFigure /\ [][FigNext]_vars
SpecTitle == InitTitle /\ [][TitleNext]_vars
SpecPage == InitPage /\ [][PageNext]_vars
SpecBatch == InitBatch /\ [][BatchNext]_vars
SpecBackup == InitBackup /\ [][BackupNext]_vars
SpecKey == InitKey /\ [][KeyNext]_vars
SpecRename == InitRename /\ [][RenameNext]_vars

(***************************************************************************)
(* Properties.                                                             *)
(***************************************************************************)

\* C1: sanitize is idempotent, sanitize(sanitize(x)) = sanitize(x) for
\* every input string x.
C1_SanitizeIdempotent == sPc = "done" => sOut2 = sOut1

\* The metadata tier gave no title, without failing.
NoMetaTitle == ~doc.meta.raises /\ meta_title(doc) = <<>>

\* The dump tier wrote blank and junk lines only.
OnlyJunkLines ==
    /\ ~doc.dump.raises
    /\ \A i \in 1..Len(doc.dump.lines) :
           empty_str(doc.dump.lines[i]) \/ junk_line(doc.dump.lines[i])

\* C2: for a document without a metadata title, whose layout tier raises
\* and whose dump holds junk and blank lines only, pdf_title returns the
\* filename without directory and extension.
C2_FallbackChain ==
    (tPc = "done" /\ NoMetaTitle /\ doc.layout.raises /\ OnlyJunkLines)
        => (tOutcome = "returned" /\ tResult = doc.filename.stem)

\* C3: when pdftotext_title raises, pdf_title does not propagate the
\* exception: it advances to the final fallback and returns the filename
\* stem.
C3_DumpFailureCaught ==
    (tPc = "done" /\ Len(tInvoked) >= 3 /\ doc.dump.raises)
        => (tOutcome = "returned" /\ tSource = "filename"
            /\ tResult = doc.filename.stem)

\* The tier that runs after tier k of tInvoked, or is about to.
NextTier(k) == IF Len(tInvoked) > k THEN tInvoked[k + 1] ELSE tPc

\* C4: a failure of the metadata tier or of the layout tier is caught at
\* the boundary of that tier: no exception of these tiers leaves pdf_title,
\* the tier gives no title, and the next tier in order is the one to run.
C4_TierFailureCaught ==
    /\ (tOutcome = "raised" => tSource \notin {"meta", "layout"})
    /\ (Len(tInvoked) >= 1 /\ doc.meta.raises)
           => (tSource # "meta" /\ NextTier(1) = "layout")
    /\ (Len(tInvoked) >= 2 /\ doc.layout.raises)
           => (tSource # "layout" /\ NextTier(2) = "dump")

\* Both tiers failed, and pdf_title went on to a later tier and returned.
C4_Witness ==
    /\ tPc = "done" /\ doc.meta.raises /\ doc.layout.raises
    /\ tOutcome = "returned" /\ tSource = "dump"

TierOrder == <<"meta", "layout", "dump", "filename">>

\* Tier k (1 to 3) of the document yields a valid title.
Yields(k) ==
    IF k = 1 THEN ~doc.meta.raises /\ valid_title(meta_title(doc))
    ELSE IF k = 2 THEN ~doc.layout.raises /\ valid_title(text_title(doc))
    ELSE ~doc.dump.raises /\ valid_title(pdftotext_title(doc))

TierTitle(k) ==
    IF k = 1 THEN meta_title(doc)
    ELSE IF k = 2 THEN text_title(doc)
    ELSE pdftotext_title(doc)

\* C5: the tiers run strictly in the order metadata, layout, dump,
\* filename; pdf_title returns the title of the first tier that passes
\* valid_title without running a later tier, and returns the filename stem
\* when none of the tiers 1 to 3 yields a valid title.
C5_TierOrder ==
    /\ \A i \in 1..Len(tInvoked) : tInvoked[i] = TierOrder[i]
    /\ tPc = "done" =>
           /\ \A k \in 1..3 :
                  (Yields(k) /\ \A m \in 1..(k - 1) : ~Yields(m))
                      => /\ tOutcome = "returned"
                         /\ tResult = TierTitle(k)
                         /\ tInvoked = SubSeq(TierOrder, 1, k)
           /\ (\A k \in 1..3 : ~Yields(k))
                  => /\ tOutcome = "returned"
                     /\ tResult = doc.filename.stem
                     /\ tInvoked = TierOrder

LastFed == fed[Len(fed)]

\* The size of the line fed before line i, the empty candidate's before
\* the first.
SizeBefore(i) == IF i = 1 THEN EmptyCandidate.size ELSE fed[i - 1].size

\* C6 as claimed, for lines of a size of 1 or more: after lines with
\* strictly increasing sizes, however small the increase, the text of the
\* candidate is the text of the last line alone (its final newline turned
\* into a blank).
C6_AnyIncrease ==
    (/\ Len(fed) >= 1
     /\ \A i \in 1..Len(fed) :
            fed[i].size >= 10000000 /\ fed[i].size > SizeBefore(i))
        => largest_text.contents = SubFinalNewline(LastFed.line)

\* C6, amended: after lines of which each is larger than the one before
\* (the first: than 0) by more than 1e-6, the text of the candidate is
\* the text of the last line alone, its final newline turned into a blank.
C6_IncreaseBeyondTolerance ==
    (/\ Len(fed) >= 1
     /\ \A i \in 1..Len(fed) : fed[i].size - SizeBefore(i) > TOLERANCE)
        => largest_text.contents = SubFinalNewline(LastFed.line)

\* Two lines, the second larger by less than the relative tolerance of
\* is_close and by more than 1e-6: the second replaced the first.
C6_Witness ==
    /\ Len(fed) = 2
    /\ fed[1].size = 120000000 /\ fed[2].size = 120000050
    /\ fed[1].line # fed[2].line
    /\ largest_text.contents = SubFinalNewline(fed[2].line)

TwoLinesMerged ==
    largest_text.contents =
        SubFinalNewline(fed[1].line) \o SubFinalNewline(fed[2].line)

\* C7 as claimed, for sizes that are 0 or at least 0.1 and y-coordinates
\* that are not negative: from the empty candidate, two lines of the same
\* size, whatever the size and the y-coordinates, give the text of the
\* first followed by the text of the second.
C7_AnyTie ==
    (/\ Len(fed) = 2 /\ fed[1].size = fed[2].size
     /\ (fed[1].size = 0 \/ fed[1].size >= 1000000)
     /\ fed[1].y0 >= 0 /\ fed[2].y0 >= 0)
        => TwoLinesMerged

\* C7, amended: two lines of the same size give the text of the first
\* followed by the text of the second (final newlines turned into blanks)
\* when the size is above 1e-6, whatever the y-coordinates, and when the
\* size is 0 and neither line lies more than 1e-6 below the one before
\* (the first: below 0).
C7_TieMerged ==
    (/\ Len(fed) = 2 /\ fed[1].size = fed[2].size
     /\ \/ fed[1].size > TOLERANCE
        \/ /\ fed[1].size = 0
           /\ fed[1].y0 >= 0 - TOLERANCE
           /\ fed[2].y0 - fed[1].y0 >= 0 - TOLERANCE)
        => TwoLinesMerged

\* Two different lines of size 12, the second below the first, merged.
C7_Witness ==
    /\ Len(fed) = 2
    /\ fed[1].size = 120000000 /\ fed[2].size = 120000000
    /\ fed[2].y0 < fed[1].y0
    /\ fed[1].line # fed[2].line
    /\ TwoLinesMerged

\* C8, for sizes that are not both 0: whenever the incoming size and the
\* size of the candidate are equal within the relative tolerance of
\* is_close, update_largest_text takes the merge branch.
C8_NearEqualMerges ==
    (/\ Len(fed) >= 1
     /\ is_close(LastFed.size, prev.size)
     /\ ~(LastFed.size = 0 /\ prev.size = 0))
        => branch = "merge"

\* The text of the characters visited, in order.
GlyphText == Flat([i \in 1..Len(Chars) |-> Chars[i].text])

\* A run of one size with explicit blanks and normal gaps only.
SpacedRun ==
    /\ Len(Chars) >= 2
    /\ \A i \in 1..Len(Chars) : Chars[i].size = 120000000 /\ Chars[i].gap = 2
    /\ \E i \in 1..Len(Chars) : Chars[i].text = <<" ">>

\* C9: for a run of one font size that has explicit space characters and
\* normal gaps only, the line extract_figure_text reconstructs is the
\* concatenation of the text of the characters.
C9_SpacesKept == SpacedRun => fLine = GlyphText

\* C10: junk_line is true of every line whose stripped length is below 6,
\* the empty line included, of "Abstract" and of "123-456", and false of
\* "A Fully Polynomial Time Approximation Scheme".
C10_JunkRejection ==
    jPc = "done" =>
        /\ (Len(strip(jLine)) < 6 => jRes)
        /\ (jLine \in {<<>>, LineAbstract, LineSerial} => jRes)
        /\ (jLine = LineTitle => ~jRes)

\* The title of the claim was classified, and is no junk.
C10_Witness == jPc = "done" /\ jLine = LineTitle /\ ~jRes

\* C11: for a one-page document without a metadata title whose first page
\* has one line of large type among body text of a smaller size, pdf_title
\* followed by sanitize gives the text of that line, however the page
\* delivers its text and wherever the line stands.
C11_LargestLineIsTitle == pPc = "printed" => pOut = PageTitle

\* C12: every file handle and process handle opened during a call of
\* pdf_title is released by the time the call returns or raises.
C12_HandlesReleased == tPc = "done" => handles = {}

\* The words of s that blanks separate.
WordCount(s) == Len(SelectSeq(split(s, " "), LAMBDA w : w # <<>>))

\* C13: the output of sanitize has at most MAX_CHARS characters and at most
\* MAX_WORDS words separated by blanks.
C13_LengthBound ==
    sPc = "done" => (Len(sOut1) <= MAX_CHARS /\ WordCount(sOut1) <= MAX_WORDS)

\* The letters, the digits and the six punctuation characters of the spec.
SafeCharacters ==
    LowerLetters \cup UpperLetters \cup digits \cup {"-", "_", ".", "(", ")", " "}

\* C14: every character of the output of sanitize is an ASCII letter, a
\* digit or one of - _ . ( ) and the blank.
C14_SafeCharacters ==
    sPc = "done" => \A i \in 1..Len(sOut1) : sOut1[i] \in SafeCharacters

\* sanitize was given a text with a character outside the list between
\* characters of the list, and kept the latter.
C14_Witness ==
    /\ sPc = "done"
    /\ \E i \in 1..Len(sIn) : sIn[i] \in {"#", ":", "\t"}
    /\ \E i \in 1..Len(sOut1) : sOut1[i] = "a"

RECURSIVE ReadAlone(_, _)
\* The candidate of a document read on its own from the candidate c on.
ReadAlone(lines, c) ==
    IF lines = <<>> THEN c
    ELSE ReadAlone(Tail(lines),
             update_largest_text(Head(lines).line, Head(lines).y0,
                                 Head(lines).size, c))

\* C15: no call reads what another call wrote: however the steps of the
\* calls interleave, one after the other in either order included, the
\* title of each document is the title it has when read on its own.
C15_Independent ==
    \A w \in Workers :
        wPc[w] = "done"
            => wTitle[w] = CandidateTitle(ReadAlone(wDoc[w], EmptyCandidate))

\* Both calls are over after steps that interleaved, each having changed a
\* dictionary in place, and the titles differ.
C15_Witness ==
    /\ \A w \in Workers : wPc[w] = "done"
    /\ \A w \in Workers :
           Len(wDoc[w]) = 2 /\ wDoc[w][1].size = 0 /\ wDoc[w][2].size = 0
    /\ wRef[1] < wRef[2]
    /\ wTitle[1] # wTitle[2]
    /\ wTitle[1] # <<>> /\ wTitle[2] # <<>>

\* C16: after write_with_backup(filename, new_content, use_backup) returns,
\* the content of the file is new_content, whatever calls came before.
C16_NewContentWritten ==
    (bWrites > 0 /\ bLast.outcome = "returned")
        => files.main = bLast.new_content

\* The calls of gen_bibkey that returned a key.
ReturnedAt == {i \in 1..Len(kReturned) : kReturned[i].outcome = "returned"}

\* C17: the key gen_bibkey returns is not in all_keys before the call and
\* is in it after the call, so that the keys returned by calls that share
\* one set all_keys differ from one another.
C17_UniqueKeys ==
    /\ Len(kReturned) \in ReturnedAt =>
           /\ kReturned[Len(kReturned)].key \notin kBefore
           /\ kReturned[Len(kReturned)].key \in all_keys
    /\ \A i, j \in ReturnedAt : i # j => kReturned[i].key # kReturned[j].key

\* Three records with the same author, year and initials got the key, the
\* key with the tail a and the key with the tail b.
C17_Witness ==
    /\ Len(kReturned) = 3
    /\ kReturned[1].key = KeyDoe
    /\ kReturned[2].key = KeyDoe \o <<"a">>
    /\ kReturned[3].key = KeyDoe \o <<"b">>

\* The incoming size exceeds the size of the candidate by more than the
\* relative tolerance, 1e-6 of the larger of the two.
ExceedsRelatively(size, candidate) ==
    size - candidate > Max(Abs(size), Abs(candidate)) \div 1000000

\* C18: whenever the incoming size exceeds the size of the candidate by
\* more than the relative tolerance, sizes below 1 included,
\* update_largest_text replaces the candidate by the incoming line: its
\* text, its y-coordinate and its size.
C18_RelativeReplacement ==
    (Len(fed) >= 1 /\ ExceedsRelatively(LastFed.size, prev.size))
        => /\ branch = "replace"
           /\ largest_text = [contents |-> SubFinalNewline(LastFed.line),
                              y0 |-> LastFed.y0, size |-> LastFed.size]

C20_SizeNeverDecreases ==
    [][/\ largest_text'.size >= largest_text.size
       /\ (largest_text'.size # largest_text.size => branch' = "replace")
       /\ (branch' = "merge" =>
              /\ largest_text'.size = largest_text.size
              /\ largest_text'.y0 = fed'[Len(fed')].y0
              /\ largest_text'.contents =
                     largest_text.contents
                         \o SubFinalNewline(fed'[Len(fed')].line))]_vars

\* A line of a size below that of the candidate, within the tolerance, was
\* merged and the candidate kept its size.
C20_Witness ==
    /\ Len(fed) = 2
    /\ branch = "merge"
    /\ fed[2].size < prev.size
    /\ largest_text.size = prev.size
    /\ largest_text.y0 = fed[2].y0

\* The step passes one character of the size of the current line through
\* the lines 196-239 of extract_figure_text.
SameLineStep ==
    /\ fPc = "loop"
    /\ Len(glyphs') = Len(glyphs) + 1
    /\ glyphs'[Len(glyphs')].char
    /\ glyphs'[Len(glyphs')].size = fSize

\* The gap the step measures (line 200) and the text it appends (237-239).
MeasuredGap == Abs(glyphs'[Len(glyphs')].x0 - char_previous_x1)
AppendedText ==
    IF empty_str(glyphs'[Len(glyphs')].text)
    THEN <<>> ELSE glyphs'[Len(glyphs')].text

\* C21: in state INIT_D, when no positive char_distance has been set or the
\* measured gap is below 2.5 times char_distance, the measured gap becomes
\* char_distance, raised to the floor 0.1 when it is smaller; and for a
\* character whose right edge is not left of the previous one the state
\* becomes INSIDE_WORD.
C21_CalibrationAdoption ==
    [][(/\ SameLineStep
        /\ fState = "INIT_D"
        /\ (char_distance <= 0 \/ 2 * MeasuredGap < 5 * char_distance))
          => /\ char_distance' = Max(MeasuredGap, 10)
             /\ (glyphs'[Len(glyphs')].x1 >= char_previous_x1
                    => fState' = "INSIDE_WORD")]_vars

\* C22: in state INSIDE_WORD a character appends a blank and resets the
\* state to INIT_D exactly when its left edge x0 is left of the right edge
\* of the previous character.
C22_VisualLineBreak ==
    [][(SameLineStep /\ fState = "INSIDE_WORD")
          => ((glyphs'[Len(glyphs')].x0 < char_previous_x1)
                <=> (/\ fState' = "INIT_D"
                     /\ fLine' = fLine \o <<" ">> \o AppendedText))]_vars

\* C23: extract_figure_text puts an inferred blank before a character only
\* when the character arrived in state INSIDE_WORD.
C23_SpaceOnlyInsideWord ==
    [][(SameLineStep /\ fLine' = fLine \o <<" ">> \o AppendedText)
          => fState = "INSIDE_WORD"]_vars

\* The number of letters in a string.
Letters(s) == Len(SelectSeq(s, LAMBDA c : c = "a"))

\* C24: when extract_figure_text returns, the raw text holds the text of
\* every character visited, the last run included, and the last line read
\* has been handed to update_largest_text.
C24_CompleteFlush ==
    fPc = "done" =>
        /\ Letters(fText) = Letters(GlyphText)
        /\ (Len(Chars) > 0 =>
               /\ Len(fed) > 0
               /\ fed[Len(fed)].line = fLine)

\* A line made of digits, blanks and dashes only, optionally followed by
\* "abstract" or "introduction", whatever the case of its letters.
NumberedLine(line) ==
    LET s == lower(strip(line))
    IN  \E i \in 2..(Len(s) + 1) :
            /\ \A m \in 1..(i - 1) : s[m] \in digits \cup {" ", "-"}
            /\ \E w \in SectionWords \cup {<<>>} :
                   StartsAt(s, i, w) /\ i + Len(w) = Len(s) + 1

\* Exactly one of the placeholder words, with an optional colon.
PlaceholderLine(line) ==
    LET s == lower(strip(line))
    IN  \E w \in PlaceholderWords : s = w \/ s = w \o <<":">>

\* C25: junk_line is true of every line of digits, blanks and dashes
\* optionally followed by "abstract" or "introduction", and of "abstract",
\* "unknown", "title" and "untitled" with an optional colon, whatever the
\* case and the length of the line.
C25_PlaceholderJunk ==
    jPc = "done" =>
        ((NumberedLine(jLine) \/ PlaceholderLine(jLine)) => jRes)

\* The characters of a line other than blanks, tabs and newlines.
NonWhitespace(line) ==
    Filter(line, {c \in Range(line) : c \notin {" ", "\t", "\n"}})

\* C26: junk_line is true of every line that has fewer alphabetic
\* characters than half of its characters other than whitespace, half
\* being exact for an odd count.
C26_SerialJunk ==
    jPc = "done" =>
        (2 * Len(Filter(jLine, ascii_letters)) < Len(NonWhitespace(jLine))
            => jRes)

\* The start line and the non-blank lines that follow it without a gap, at
\* most max_lines of them, joined by single blanks.
LineWindow(out) ==
    LET lines == split(strip(out), "\n")
        i == title_start(lines)
        further == {n \in 0..max_lines :
                       \A k \in 1..n : /\ i + k <= Len(lines) - 1
                                       /\ ~empty_str(lines[i + k + 1])}
        n == CHOOSE x \in further : \A y \in further : x >= y
    IN  join(<<" ">>, [k \in 1..(n + 1) |-> strip(lines[i + k])])

\* C27: the title the dump tier returns is the start line joined by single
\* blanks with the non-blank lines that follow it, up to 2 further lines and
\* up to the first blank line.
C27_LineWindow ==
    (tPc = "done" /\ tOutcome = "returned" /\ tSource = "dump")
        => tResult = StripDots(LineWindow(join(<<"\n">>, doc.dump.lines)))

\* C28: the result of sanitize does not end with ".pdf" and has no two
\* blanks in a row.
C28_SuffixAndBlanks ==
    sPc = "done" =>
        /\ ~(Len(sOut1) >= 4 /\ StartsAt(sOut1, Len(sOut1) - 3, <<".", "p", "d", "f">>))
        /\ \A i \in 1..(Len(sOut1) - 1) : ~(sOut1[i] = " " /\ sOut1[i + 1] = " ")

\* C29: a call of write_with_backup leaves every backup file that exists
\* as it is; with use_backup, when the call replaces the content of the
\* file by another content, the content replaced is in a backup file after
\* the call, and when new_content is the content of the file the call
\* changes and creates no file.
C29_BackupsKept ==
    bWrites > 0 =>
        /\ Len(files.bak) >= Len(bLast.before.bak)
        /\ \A k \in 1..Len(bLast.before.bak) :
               files.bak[k] = bLast.before.bak[k]
        /\ bLast.use_backup =>
               /\ (bLast.before.main # NoFile
                   /\ files.main # bLast.before.main)
                      => \E k \in 1..Len(files.bak) :
                             files.bak[k] = bLast.before.main
               /\ bLast.new_content = bLast.before.main => files = bLast.before

\* A file that had a backup already was replaced by another content, and
\* its old content went to a second backup file.
C29_Witness ==
    /\ bWrites > 0
    /\ bLast.use_backup
    /\ bLast.outcome = "returned"
    /\ Len(bLast.before.bak) = 1
    /\ bLast.before.main # NoFile
    /\ files.main # bLast.before.main
    /\ Len(files.bak) = 2
    /\ files.bak[2] = bLast.before.main

\* C30: after a rename pass the user confirmed, the folder holds as many
\* pdf files as before and every pdf it held before.
C30_NoPdfLost ==
    (rPc = "done" /\ rConfirmed /\ rOutcome = "returned")
        => /\ Cardinality(rFolder) = Cardinality(rBefore)
           /\ {f.pdf : f \in rFolder} = {f.pdf : f \in rBefore}

=============================================================================
